---- MODULE Spec2Model ----
(***************************************************************************)
(* A model of the wiki extraction pipeline of src/extractor.py and of the   *)
(* crawler of src/crawler.py.                                              *)
(*                                                                         *)
(* Texts are sequences of one-character strings, so that the regular       *)
(* expressions and index scans of the source are computed character by     *)
(* character.  The specifications that share the module:                   *)
(*   Spec      the dump pipeline: parse_partition line by line, then the   *)
(*             DataFrame stages of main (dropDuplicates, process_wiki_page,*)
(*             filter, dropDuplicates);                                    *)
(*   SpecText  the pure text functions (find_section_block, clean_wikitext,*)
(*             extract_infobox_block, parse_infobox_fields) applied to     *)
(*             inputs drawn from bounded sets;                             *)
(*   SpecEntity  normalize_entity, normalize_title_variants,               *)
(*             detect_page_type and the yield step of parse_partition      *)
(*             applied to bounded calls;                                   *)
(*   SpecScan  the depth-counted scans of the text functions, one          *)
(*             iteration of a loop per step;                               *)
(*   SpecDeque the methods of UniqueDeque called in any order;             *)
(*   SpecCrawl runs of crawl_from_root, one after the other on the state   *)
(*             file the run before left.                                   *)
(***************************************************************************)
EXTENDS Integers, Sequences, FiniteSets, TLC

VARIABLES
    \* ---- SpecText: one pure function applied to one input
    input,      \* the text handed to the function
    arg,        \* the section name handed to find_section_block
    op,         \* "none" before the call, then the function that ran
    out,        \* the function's result, [some, val]
    prev,       \* clean_wikitext's first result, kept when it is applied again
    fields,     \* parse_infobox_fields's dict, a sequence of <<key, value>>
    \* ---- Spec: the pipeline
    lines,      \* the lines of the partition not yet read
    in_page, buffer, title, is_redirect, namespace,   \* parse_partition's locals
    pages_rdd,  \* the rows parse_partition has yielded
    wiki_df,    \* pages_rdd after dropDuplicates(["title_norm"])
    wiki_processed_df,  \* the processed rows: the output of the engine
    stage,      \* "parse", "process", "filter", "done", or "idle" in SpecText
    mentions,   \* the broadcast mention sets, [country, city, artist, venue]
    \* ---- history variables: what the properties need to remember
    dump,       \* the partition as it was given, before any line was read
    source_df,  \* the row of wiki_df each row of wiki_processed_df was made from
    \* ---- SpecCrawl and SpecDeque: crawl_from_root of src/crawler.py
    pc,         \* where crawl_from_root stands, or "idle" in the other specifications
    root_url, max_pages, max_setlists, resume,      \* the arguments of the run
    robots_disallows,   \* the Disallow prefixes load_robots_txt returned
    frontier,   \* the UniqueDeque, [dq, set]
    visited, found_setlists, pages_fetched,         \* crawl_from_root's locals
    url,        \* the URL popped in this iteration
    links,      \* what extract_links returned for the fetched page
    state_file, \* data/crawler_state.json, [some, val]
    \* ---- history variables of the crawl
    gets,       \* the URLs handed to requests.get in this run, in order
    runs        \* how many runs have been started

textVars == <<input, arg, op, out, prev, fields>>
pipeVars == <<lines, in_page, buffer, title, is_redirect, namespace,
              pages_rdd, wiki_df, wiki_processed_df, stage, mentions,
              dump, source_df>>
crawlVars == <<pc, root_url, max_pages, max_setlists, resume, robots_disallows,
               frontier, visited, found_setlists, pages_fetched, url, links,
               state_file, gets, runs>>
vars == <<textVars, pipeVars, crawlVars>>

\* crawl_from_root is not running
CrawlIdle ==
    /\ pc = "idle" /\ root_url = <<>> /\ max_pages = 0 /\ max_setlists = 0
    /\ resume = FALSE /\ robots_disallows = <<>>
    /\ frontier = [dq |-> <<>>, set |-> {}]
    /\ visited = {} /\ found_setlists = {} /\ pages_fetched = 0
    /\ url = <<>> /\ links = <<>>
    /\ state_file = [some |-> FALSE, val |-> <<>>]
    /\ gets = <<>> /\ runs = 0

(***************************************************************************)
(* Characters and the string primitives of Python the source uses.         *)
(***************************************************************************)
NL == "\n"
SP == " "
TAB == "\t"
DQ == "\""
SQ == "'"

\* What \s and str.strip() treat as whitespace, among the modelled characters.
Ws == {SP, TAB, NL}

UpperCase == <<"A","B","C","D","E","F","G","H","I","J","K","L","M",
               "N","O","P","Q","R","S","T","U","V","W","X","Y","Z">>
LowerCase == <<"a","b","c","d","e","f","g","h","i","j","k","l","m",
               "n","o","p","q","r","s","t","u","v","w","x","y","z">>
Letters == {UpperCase[k] : k \in 1..26} \cup {LowerCase[k] : k \in 1..26}
Digits == {"0","1","2","3","4","5","6","7","8","9"}
\* \w of the regular expressions.
WordCh == Letters \cup Digits \cup {"_"}

LowerCh(c) ==
    IF \E k \in 1..26 : UpperCase[k] = c
    THEN LowerCase[CHOOSE k \in 1..26 : UpperCase[k] = c]
    ELSE c

\* str.lower()
Lower(s) == [k \in 1..Len(s) |-> LowerCh(s[k])]

Min(a, b) == IF a < b THEN a ELSE b
Max(a, b) == IF a > b THEN a ELSE b

\* s[i:j] of Python with 1-based inclusive bounds: the characters i..j.
Slice(s, i, j) == IF i > j THEN <<>> ELSE SubSeq(s, i, j)

\* The least element of the set S of integers, or d when S is empty.
First(S, d) == IF S = {} THEN d ELSE CHOOSE k \in S : \A j \in S : k <= j

\* The first index k in i..Len(s) with s[k] not in cs, or Len(s)+1.
SkipIn(s, i, cs) == First({k \in i..Len(s) : s[k] \notin cs}, Len(s) + 1)

\* The first index k in i..Len(s) with s[k] in cs, or Len(s)+1.
FindIn(s, i, cs) == First({k \in i..Len(s) : s[k] \in cs}, Len(s) + 1)

\* The last index k in 1..j with s[k] not in cs, or 0: j + 1 less the
\* distance d of the first such character counted back from j.
SkipBack(s, j, cs) == j + 1 - First({d \in 1..j : s[j + 1 - d] \notin cs}, j + 1)

\* The number of consecutive characters c from index i on.
RunLen(s, i, c) == SkipIn(s, i, {c}) - i

\* s.startswith(lit, i-1): lit occurs in s at index i.
StartsAt(s, i, lit) ==
    /\ i >= 1
    /\ i + Len(lit) - 1 <= Len(s)
    /\ \A k \in 1..Len(lit) : s[i + k - 1] = lit[k]

\* The same, ignoring case (re.IGNORECASE against a lowercase literal).
StartsAtNoCase(s, i, lit) ==
    /\ i >= 1
    /\ i + Len(lit) - 1 <= Len(s)
    /\ \A k \in 1..Len(lit) : LowerCh(s[i + k - 1]) = lit[k]

\* s.find(lit, i-1) + 1: the first index >= i where lit occurs, or 0.
FindFrom(s, i, lit) ==
    First({k \in i..(Len(s) - Len(lit) + 1) : StartsAt(s, k, lit)}, 0)

\* The same, ignoring case.
FindFromNoCase(s, i, lit) ==
    First({k \in i..(Len(s) - Len(lit) + 1) : StartsAtNoCase(s, k, lit)}, 0)

\* lit in s
Contains(s, lit) == FindFrom(s, 1, lit) # 0

\* s.strip(chars)
StripChars(s, cs) ==
    LET a == SkipIn(s, 1, cs)
        b == SkipBack(s, Len(s), cs)
    IN Slice(s, a, b)

\* s.strip()
Strip(s) == StripChars(s, Ws)

\* An optional value: Python's None or a value.
None == [some |-> FALSE, val |-> <<>>]
Some(v) == [some |-> TRUE, val |-> v]

(***************************************************************************)
(* normalize_headings and find_section_block.                              *)
(***************************************************************************)
\* ={2,6}[^=\n]+={2,6} matched at index i: the index after the match, or 0.
\* The opening run must be the whole run of "=" from i (the next character
\* has to be a title character) and the closing run is taken greedily.
HeadingLikeEnd(s, i) ==
    LET r  == RunLen(s, i, "=")
        j  == i + r
        k  == FindIn(s, j, {"=", NL})
        r2 == RunLen(s, k, "=")
    IN IF r >= 2 /\ r <= 6 /\ k > j /\ r2 >= 2 THEN k + Min(r2, 6) ELSE 0

NoMatch == [start |-> 0, end |-> 0, level |-> 0, title |-> <<>>]

\* SECTION_RE, (?:^|\n)(={2,6})\s*(?P<title>[^=\n]+?)\s*\1 with re.MULTILINE,
\* matched at index p.  start is p, end the index after the match.
\*   q   where the opening run starts: p at a line start, p+1 after a "\n";
\*   r   the opening run, which must be the whole run of "=" (2..6);
\*   e   the first "=" after it, where \1 must match r more "=";
\*   the greedy \s* takes all the leading whitespace and the lazy title runs
\*   to the last non-whitespace character before e; when only whitespace
\*   lies between the runs \s* backs off and the title is the last character
\*   there that is not "\n".
SectionMatchAt(s, p) ==
    LET q == IF s[p] = "=" /\ (p = 1 \/ s[p - 1] = NL) THEN p
             ELSE IF s[p] = NL THEN p + 1
             ELSE 0
    IN IF q = 0 \/ q > Len(s) THEN NoMatch
       ELSE
        LET r  == RunLen(s, q, "=")
            b0 == q + r
            e  == FindIn(s, b0, {"="})
            s1 == SkipIn(s, b0, Ws)
            l1 == SkipBack(s, e - 1, Ws)
            x  == SkipBack(s, e - 1, {NL})
            t1 == IF s1 < e THEN s1 ELSE x
            t2 == IF s1 < e THEN l1 ELSE x
        IN IF /\ r >= 2 /\ r <= 6
              /\ e <= Len(s)
              /\ t1 >= b0
              /\ \A k \in t1..t2 : s[k] # NL
              /\ RunLen(s, e, "=") >= r
           THEN [start |-> p, end |-> e + r, level |-> r,
                 title |-> Slice(s, t1, t2)]
           ELSE NoMatch

(***************************************************************************)
(* clean_wikitext: the passes in the order of the source.  A regular       *)
(* expression is modelled by the operator that gives, for an index i, the  *)
(* index after its match at i (0: no match at i); re.sub scans from the    *)
(* left and resumes after each match.                                      *)
(***************************************************************************)
\* html.unescape, for the named references amp, lt, gt and quot.  The
\* token after "&" is [^\t\n\f <&#;]{1,32};? ; a token that is no entity is
\* decoded by its longest prefix that is one, and otherwise left alone.
EntityNames == << <<"q","u","o","t">>, <<"a","m","p">>, <<"l","t">>, <<"g","t">> >>
EntityChars == << DQ, "&", "<", ">" >>

EntityOf(tok) ==
    LET n == IF Len(tok) > 0 /\ tok[Len(tok)] = ";" THEN Slice(tok, 1, Len(tok) - 1) ELSE tok
        whole == {k \in 1..4 : EntityNames[k] = n}
        pre == {k \in 1..4 : /\ Len(EntityNames[k]) < Len(tok)
                             /\ StartsAt(tok, 1, EntityNames[k])}
    IN IF whole # {} THEN <<EntityChars[CHOOSE k \in whole : TRUE]>>
       ELSE IF pre # {}
       THEN LET k == CHOOSE k \in pre : TRUE
            IN <<EntityChars[k]>> \o Slice(tok, Len(EntityNames[k]) + 1, Len(tok))
       ELSE <<"&">> \o tok

\* A character reference at index i: the index after its token, or 0 when
\* s[i] is no "&" or no token follows it.
EntityEnd(s, i) ==
    IF s[i] # "&" THEN 0
    ELSE LET n0 == FindIn(s, i + 1, {TAB, NL, SP, "<", "&", "#", ";"})
             n1 == Min(n0, i + 33)
         IN IF n1 = i + 1 THEN 0
            ELSE IF n1 <= Len(s) /\ s[n1] = ";" THEN n1 + 1 ELSE n1

\* <ref[^>]*>.*?</ref> with DOTALL and IGNORECASE
RefBlockEnd(s, i) ==
    IF ~StartsAtNoCase(s, i, <<"<","r","e","f">>) THEN 0
    ELSE LET g == FindIn(s, i + 4, {">"})
             c == FindFromNoCase(s, g + 1, <<"<","/","r","e","f",">">>)
         IN IF g > Len(s) \/ c = 0 THEN 0 ELSE c + 6

\* <ref[^/>]*/> with IGNORECASE
RefSelfEnd(s, i) ==
    IF ~StartsAtNoCase(s, i, <<"<","r","e","f">>) THEN 0
    ELSE LET g == FindIn(s, i + 4, {"/", ">"})
         IN IF StartsAt(s, g, <<"/", ">">>) THEN g + 2 ELSE 0

\* <!--.*?--> with DOTALL
CommentEnd(s, i) ==
    IF ~StartsAt(s, i, <<"<","!","-","-">>) THEN 0
    ELSE LET c == FindFrom(s, i + 4, <<"-","-",">">>)
         IN IF c = 0 THEN 0 ELSE c + 3

\* \[\[(?:File|Image):[^]]+\]\] with IGNORECASE
FileLinkEnd(s, i) ==
    LET j == IF StartsAtNoCase(s, i, <<"[","[","f","i","l","e",":">>) THEN i + 7
             ELSE IF StartsAtNoCase(s, i, <<"[","[","i","m","a","g","e",":">>) THEN i + 8
             ELSE 0
        g == FindIn(s, j, {"]"})
    IN IF j > 0 /\ g > j /\ StartsAt(s, g, <<"]","]">>) THEN g + 2 ELSE 0

\* \[\[([^]]+)\]\]
LinkEnd(s, i) ==
    LET g == FindIn(s, i + 2, {"]"})
    IN IF StartsAt(s, i, <<"[","[">>) /\ g > i + 2 /\ StartsAt(s, g, <<"]","]">>)
       THEN g + 2 ELSE 0

\* inner.split("|")[-1]
RECURSIVE LastPart(_)
LastPart(inner) ==
    LET b == FindIn(inner, 1, {"|"})
    IN IF b > Len(inner) THEN inner
       ELSE LastPart(Slice(inner, b + 1, Len(inner)))

\* re.sub(r"^\s*[^:]*:\s*", "", last): everything up to the first ":" and the
\* whitespace after it goes.
StripPrefix(last) ==
    LET c == FindIn(last, 1, {":"})
    IN IF c > Len(last) THEN last
       ELSE Slice(last, SkipIn(last, c + 1, Ws), Len(last))

\* link_repl, on the text between "[[" and "]]"
link_repl(inner) == StripPrefix(LastPart(inner))

\* </?[^>]+>
TagEnd(s, i) ==
    LET g == FindIn(s, i + 1, {">"})
    IN IF i <= Len(s) /\ s[i] = "<" /\ g <= Len(s) /\ g >= i + 2 THEN g + 1 ELSE 0

\* \n{3,}
NewlinesEnd(s, i) ==
    LET r == RunLen(s, i, NL) IN IF r >= 3 THEN i + r ELSE 0

\* [ \t]{2,}
BlanksEnd(s, i) ==
    LET e == SkipIn(s, i, {SP, TAB}) IN IF e - i >= 2 THEN e ELSE 0

\* (?:^|\n)\s*\*\s+ without MULTILINE: "^" is the start of the text only.
BulletEnd(s, i) ==
    LET q == SkipIn(s, i, Ws)
        e == SkipIn(s, q + 1, Ws)
    IN IF (i = 1 \/ s[i] = NL) /\ q <= Len(s) /\ s[q] = "*" /\ e > q + 1
       THEN e ELSE 0

\* \*\s+
StarEnd(s, i) ==
    LET e == SkipIn(s, i + 1, Ws)
    IN IF s[i] = "*" /\ e > i + 1 THEN e ELSE 0

\* <word>\s*=\s* with IGNORECASE, from index i: the index after it, or 0.
AttrHead(s, i, word) ==
    LET a == SkipIn(s, i + Len(word), Ws)
    IN IF StartsAtNoCase(s, i, word) /\ a <= Len(s) /\ s[a] = "="
       THEN SkipIn(s, a + 1, Ws) ELSE 0

\* [\"']?<cs>+[\"']? from index v (v = 0: no match before)
QuotedRun(s, v, cs) ==
    LET a == IF v >= 1 /\ v <= Len(s) /\ s[v] \in {DQ, SQ} THEN v + 1 ELSE v
        b == SkipIn(s, a, cs)
    IN IF v = 0 \/ b = a THEN 0
       ELSE IF b <= Len(s) /\ s[b] \in {DQ, SQ} THEN b + 1 ELSE b

\* !\s*scope\s*=\s*[\"']?\w+[\"']?
ScopeEnd(s, i) ==
    IF s[i] # "!" THEN 0
    ELSE QuotedRun(s, AttrHead(s, SkipIn(s, i + 1, Ws), <<"s","c","o","p","e">>), WordCh)

\* rowspan\s*=\s*[\"']?\d+[\"']?
RowspanEnd(s, i) ==
    QuotedRun(s, AttrHead(s, i, <<"r","o","w","s","p","a","n">>), Digits)

\* colspan\s*=\s*[\"']?\d+[\"']?
ColspanEnd(s, i) ==
    QuotedRun(s, AttrHead(s, i, <<"c","o","l","s","p","a","n">>), Digits)

\* <word>\s*=\s*[\"'][^\"']*[\"']
QuotedAttrEnd(s, i, word) ==
    LET v == AttrHead(s, i, word)
        c == FindIn(s, v + 1, {DQ, SQ})
    IN IF v >= 1 /\ v <= Len(s) /\ s[v] \in {DQ, SQ} /\ c <= Len(s) THEN c + 1 ELSE 0

\* width\s*=\s*[\"']?[^\"'\s]+[\"']?
WidthEnd(s, i) ==
    LET v == AttrHead(s, i, <<"w","i","d","t","h">>)
        a == IF v >= 1 /\ v <= Len(s) /\ s[v] \in {DQ, SQ} THEN v + 1 ELSE v
        b == FindIn(s, a, {DQ, SQ} \cup Ws)
    IN IF v = 0 \/ b = a THEN 0
       ELSE IF b <= Len(s) /\ s[b] \in {DQ, SQ} THEN b + 1 ELSE b

\* [!+\-]{1,3}\s*
PunctEnd(s, i) ==
    LET e == Min(SkipIn(s, i, {"!", "+", "-"}), i + 3)
    IN IF e > i THEN SkipIn(s, e, Ws) ELSE 0

\* \|+
PipesEnd(s, i) ==
    LET e == SkipIn(s, i, {"|"}) IN IF e > i THEN e ELSE 0

\* ,\s*,+
CommasEnd(s, i) ==
    LET a == SkipIn(s, i + 1, Ws)
        e == SkipIn(s, a, {","})
    IN IF s[i] = "," /\ e > a THEN e ELSE 0

\* ,\s*$
TrailingCommaEnd(s, i) ==
    IF s[i] = "," /\ SkipIn(s, i + 1, Ws) > Len(s) THEN Len(s) + 1 ELSE 0

\* The inner loop of remove_tables with the depth left uncounted: the first
\* "|}" ends the table.  The table properties must tell it from TableInner.
RECURSIVE TableInnerFlat(_, _, _)
TableInnerFlat(s, i, depth) ==
    IF ~(i < Len(s)) THEN i
    ELSE IF StartsAt(s, i, <<"|", "}">>) THEN i + 2
    ELSE TableInnerFlat(s, Min(FindIn(s, i + 1, {"|"}), Len(s)), depth)

\* remove_tables: the inner while loop, entered at index i with `depth`;
\* the index it leaves at.  Python's i < len(text) - 1 is i < Len(s) here.
\* The steps "i += 1" up to the next "{" or "|" are taken at once.
RECURSIVE TableInner(_, _, _)
TableInner(s, i, depth) ==
    IF ~(i < Len(s) /\ depth > 0) THEN i
    ELSE IF StartsAt(s, i, <<"{", "|">>) THEN TableInner(s, i + 2, depth + 1)
    ELSE IF StartsAt(s, i, <<"|", "}">>) THEN TableInner(s, i + 2, depth - 1)
    ELSE TableInner(s, Min(FindIn(s, i + 1, {"{", "|"}), Len(s)), depth)

\* remove_tables: one turn of the outer while loop at a "{|": the index
\* after the table, or 0 when no table opens at i
TableEnd(s, i) ==
    IF i < Len(s) /\ StartsAt(s, i, <<"{", "|">>) THEN TableInner(s, i + 2, 1) ELSE 0

list_templates == {
    <<"p","l","a","i","n","l","i","s","t">>, <<"f","l","a","t","l","i","s","t">>,
    <<"h","l","i","s","t">>, <<"u","b","l">>, <<"n","o","w","r","a","p">>,
    <<"u","r","l">>,
    <<"o","f","f","i","c","i","a","l"," ","u","r","l">>,
    <<"o","f","f","i","c","i","a","l"," ","w","e","b","s","i","t","e">>,
    <<"s","t","a","r","t"," ","d","a","t","e">>,
    <<"s","t","a","r","t"," ","d","a","t","e"," ","a","n","d"," ","a","g","e">>,
    <<"e","n","d"," ","d","a","t","e">>,
    <<"e","n","d"," ","d","a","t","e"," ","a","n","d"," ","a","g","e">> }

\* extract_list_content: the inner while loop; where it leaves and what it
\* appended to result (the content, when the template closes).
RECURSIVE ListInner(_, _, _, _)
ListInner(s, i, depth, content_start) ==
    IF ~(i < Len(s) /\ depth > 0) THEN [i |-> i, emit |-> <<>>]
    ELSE IF StartsAt(s, i, <<"{", "{">>) THEN ListInner(s, i + 2, depth + 1, content_start)
    ELSE IF StartsAt(s, i, <<"}", "}">>)
    THEN IF depth - 1 = 0
         THEN [i |-> i + 2, emit |-> Slice(s, content_start, i - 1)]
         ELSE ListInner(s, i + 2, depth - 1, content_start)
    ELSE ListInner(s, Min(FindIn(s, i + 1, {"{", "}"}), Len(s)), depth, content_start)

\* extract_list_content: one turn of the outer while loop at a "{{": where
\* it leaves (0 when no "{{" is at i) and what it appended to result
ListStep(s, i) ==
    IF ~(i < Len(s) /\ StartsAt(s, i, <<"{", "{">>)) THEN [i |-> 0, emit |-> <<>>]
    ELSE LET template_name_end == FindIn(s, i + 2, {"|", "}", NL})
             template_name == Lower(Strip(Slice(s, i + 2, template_name_end - 1)))
         IN IF template_name \in list_templates
            THEN IF template_name_end <= Len(s) /\ s[template_name_end] = "|"
                 THEN ListInner(s, template_name_end + 1, 1, template_name_end + 1)
                 ELSE [i |-> template_name_end,
                       emit |-> Slice(s, i, template_name_end - 1)]
            ELSE [i |-> i + 2, emit |-> <<"{", "{">>]

\* The inner loop of remove_templates with the depth left uncounted: the
\* first "}}" ends the template.  The template properties must tell it from
\* TemplateInner.
RECURSIVE TemplateInnerFlat(_, _, _)
TemplateInnerFlat(s, i, depth) ==
    IF ~(i < Len(s)) THEN <<i, 1>>
    ELSE IF StartsAt(s, i, <<"}", "}">>) THEN <<i + 2, 0>>
    ELSE TemplateInnerFlat(s, Min(FindIn(s, i + 1, {"}"}), Len(s)), depth)

\* remove_templates: the inner while loop; <<index, depth>> when it leaves.
RECURSIVE TemplateInner(_, _, _)
TemplateInner(s, i, depth) ==
    IF ~(i < Len(s) /\ depth > 0) THEN <<i, depth>>
    ELSE IF StartsAt(s, i, <<"{", "{">>) THEN TemplateInner(s, i + 2, depth + 1)
    ELSE IF StartsAt(s, i, <<"}", "}">>) THEN TemplateInner(s, i + 2, depth - 1)
    ELSE TemplateInner(s, Min(FindIn(s, i + 1, {"{", "}"}), Len(s)), depth)

\* "if depth > 0: i += 1" after the inner loop
TemplateLeave(r) == IF r[2] > 0 THEN r[1] + 1 ELSE r[1]

\* remove_templates: one turn of the outer while loop at a "{{": the index
\* it leaves at, or 0 when no "{{" is at i
TemplateEnd(s, i) ==
    IF i < Len(s) /\ StartsAt(s, i, <<"{", "{">>)
    THEN TemplateLeave(TemplateInner(s, i + 2, 1)) ELSE 0

\* The index after the match of pattern `pat` at index i, or 0.  Besides the
\* regular expressions, the hand-written scanners of the source go by a
\* name here: what they drop or rewrite at i is their match.
MatchEnd(pat, s, i) ==
    CASE pat = "normalize" -> IF i = 1 \/ s[i - 1] # NL THEN HeadingLikeEnd(s, i) ELSE 0
      [] pat = "section"  -> SectionMatchAt(s, i).end
      [] pat = "entity"   -> EntityEnd(s, i)
      [] pat = "refblock" -> RefBlockEnd(s, i)
      [] pat = "refself"  -> RefSelfEnd(s, i)
      [] pat = "comment"  -> CommentEnd(s, i)
      [] pat = "table"    -> TableEnd(s, i)
      [] pat = "filelink" -> FileLinkEnd(s, i)
      [] pat = "link"     -> LinkEnd(s, i)
      [] pat = "list"     -> ListStep(s, i).i
      [] pat = "template" -> TemplateEnd(s, i)
      [] pat = "bold"     -> IF StartsAt(s, i, <<SQ, SQ, SQ>>) THEN i + 3 ELSE 0
      [] pat = "italic"   -> IF StartsAt(s, i, <<SQ, SQ>>) THEN i + 2 ELSE 0
      [] pat = "tag"      -> TagEnd(s, i)
      [] pat = "newlines" -> NewlinesEnd(s, i)
      [] pat = "blanks"   -> BlanksEnd(s, i)
      [] pat = "bullet"   -> BulletEnd(s, i)
      [] pat = "star"     -> StarEnd(s, i)
      [] pat = "scope"    -> ScopeEnd(s, i)
      [] pat = "rowspan"  -> RowspanEnd(s, i)
      [] pat = "colspan"  -> ColspanEnd(s, i)
      [] pat = "class"    -> QuotedAttrEnd(s, i, <<"c","l","a","s","s">>)
      [] pat = "style"    -> QuotedAttrEnd(s, i, <<"s","t","y","l","e">>)
      [] pat = "width"    -> WidthEnd(s, i)
      [] pat = "punct"    -> PunctEnd(s, i)
      [] pat = "open"     -> IF StartsAt(s, i, <<"[","[">>) THEN i + 2 ELSE 0
      [] pat = "close"    -> IF StartsAt(s, i, <<"]","]">>) THEN i + 2 ELSE 0
      [] pat = "pipes"    -> PipesEnd(s, i)
      [] pat = "commas"   -> CommasEnd(s, i)
      [] pat = "trailing" -> TrailingCommaEnd(s, i)

\* What a match s[i..e-1] of `pat` is replaced by.
Replacement(pat, s, i, e) ==
    CASE pat = "normalize" -> <<NL>> \o Slice(s, i, e - 1)
      [] pat = "section"  -> <<NL>> \o Strip(SectionMatchAt(s, i).title) \o <<NL>>
      [] pat = "entity"   -> EntityOf(Slice(s, i + 1, e - 1))
      [] pat = "link"     -> link_repl(Slice(s, i + 2, e - 3))
      [] pat = "list"     -> ListStep(s, i).emit
      [] pat = "newlines" -> <<NL, NL>>
      [] pat = "blanks"   -> <<SP>>
      [] pat = "bullet"   -> <<NL>>
      [] pat = "star"     -> <<",", SP>>
      [] pat = "punct"    -> <<SP>>
      [] pat = "pipes"    -> <<",", SP>>
      [] pat = "commas"   -> <<",">>
      [] OTHER            -> <<>>

\* For each index of s, the index after the match of `pat` there, or 0
MatchEnds(pat, s) == [j \in 1..Len(s) |-> MatchEnd(pat, s, j)]

\* The first match at or after index i, as re scans for it: its start, or 0
\* when there is none
NextMatch(ends, i) == First({j \in i..Len(ends) : ends[j] > 0}, 0)

\* re.sub(pattern, replacement, s), scanning from index i: the text up to
\* the next match is kept, the match replaced, and the scan resumes after it.
RECURSIVE SubFrom(_, _, _, _)
SubFrom(pat, s, i, ends) ==
    LET j == NextMatch(ends, i)
    IN IF j = 0 THEN Slice(s, i, Len(s))
       ELSE Slice(s, i, j - 1) \o Replacement(pat, s, j, ends[j])
            \o SubFrom(pat, s, ends[j], ends)

Sub(pat, s) == SubFrom(pat, s, 1, MatchEnds(pat, s))

\* html.unescape
html_unescape(s) == Sub("entity", s)

\* re.sub(r"(?<!\n)(={2,6}[^=\n]+={2,6})", r"\n\1", wikitext)
normalize_headings(wikitext) == Sub("normalize", wikitext)

\* list(SECTION_RE.finditer(wt)), scanning from index p.
RECURSIVE SectionMatches(_, _, _)
SectionMatches(s, p, ends) ==
    LET q == NextMatch(ends, p)
    IN IF q = 0 THEN <<>>
       ELSE <<SectionMatchAt(s, q)>> \o SectionMatches(s, ends[q], ends)

\* The loop over matches[i + 1:]: where the section of level `level` ends.
RECURSIVE SectionEnd(_, _, _, _)
SectionEnd(matches, k, level, len) ==
    IF k > Len(matches) THEN len + 1
    ELSE IF matches[k].level <= level THEN matches[k].start
    ELSE SectionEnd(matches, k + 1, level, len)

\* The loop over enumerate(matches) if it kept the last match of the target
\* instead of returning at the first.  The property of the earliest heading
\* must tell it from FindSectionFrom.
RECURSIVE FindSectionFromLast(_, _, _, _)
FindSectionFromLast(wt, matches, k, target) ==
    IF k > Len(matches) THEN None
    ELSE IF FindSectionFromLast(wt, matches, k + 1, target) # None
    THEN FindSectionFromLast(wt, matches, k + 1, target)
    ELSE IF Lower(StripChars(Strip(matches[k].title), {SP, SQ, DQ})) = target
    THEN Some(Strip(Slice(wt, matches[k].end,
                SectionEnd(matches, k + 1, matches[k].level, Len(wt)) - 1)))
    ELSE None

\* The loop over enumerate(matches), from the k-th match on.
RECURSIVE FindSectionFrom(_, _, _, _)
FindSectionFrom(wt, matches, k, target) ==
    IF k > Len(matches) THEN None
    ELSE IF Lower(StripChars(Strip(matches[k].title), {SP, SQ, DQ})) = target
    THEN Some(Strip(Slice(wt, matches[k].end,
                SectionEnd(matches, k + 1, matches[k].level, Len(wt)) - 1)))
    ELSE FindSectionFrom(wt, matches, k + 1, target)

\* find_section_block after "wt = normalize_headings(wikitext)"
FindSectionIn(wt, section_name) ==
    FindSectionFrom(wt, SectionMatches(wt, 1, MatchEnds("section", wt)), 1,
                    Lower(Strip(section_name)))

find_section_block(wikitext, section_name) ==
    FindSectionIn(normalize_headings(wikitext), section_name)

remove_tables(text) == Sub("table", text)

extract_list_content(text) == Sub("list", text)

remove_templates(text) == Sub("template", text)

\* re.sub(r"^\s*,\s*", "", text): only at the start of the text.
StripLeadingComma(s) ==
    LET a == SkipIn(s, 1, Ws)
    IN IF a <= Len(s) /\ s[a] = "," THEN Slice(s, SkipIn(s, a + 1, Ws), Len(s)) ELSE s

\* "\n".join(line.strip() for line in text.splitlines()), from index i
RECURSIVE StripLines(_, _)
StripLines(s, i) ==
    IF i > Len(s) THEN <<>>
    ELSE LET n == FindIn(s, i, {NL})
         IN IF n >= Len(s) THEN Strip(Slice(s, i, n - 1))
            ELSE Strip(Slice(s, i, n - 1)) \o <<NL>> \o StripLines(s, n + 1)

\* One pass of clean_wikitext: the passes that scan for a pattern go by
\* the pattern's name.
ApplyPass(pass, text) ==
    CASE pass = "lines"   -> StripLines(text, 1)
      [] pass = "leading" -> StripLeadingComma(text)
      [] pass = "strip"   -> Strip(text)
      [] OTHER            -> Sub(pass, text)

\* The passes, in the order of the statements of clean_wikitext
CleanPasses == <<
    "entity", "section", "refblock", "refself", "comment", "table",
    "filelink", "link", "list", "template", "bold", "italic", "tag",
    "newlines", "lines", "blanks", "bullet", "star",
    "scope", "rowspan", "colspan", "class", "style", "width", "punct",
    "open", "close", "pipes", "commas", "leading", "trailing", "strip" >>

\* text after the passes lo..hi, in order: the first half of them, then the
\* second half on what the first gives.  Every pass leaves an empty text
\* empty; testing for it has each half computed before the next starts.
RECURSIVE ApplyPasses(_, _, _, _)
ApplyPasses(passes, lo, hi, text) ==
    IF Len(text) = 0 THEN text
    ELSE IF lo = hi THEN ApplyPass(passes[lo], text)
    ELSE ApplyPasses(passes, (lo + hi) \div 2 + 1, hi,
                     ApplyPasses(passes, lo, (lo + hi) \div 2, text))

clean_wikitext(text) ==
    IF text = <<>> THEN <<>> ELSE ApplyPasses(CleanPasses, 1, Len(CleanPasses), text)

(***************************************************************************)
(* extract_infobox_block, parse_infobox_fields, extract_infobox_field_clean*)
(***************************************************************************)
\* extract_infobox_block: the while loop from index i with `depth`.  The
\* steps "i += 1" up to the next brace are taken at once.
RECURSIVE BlockScan(_, _, _, _)
BlockScan(s, idx, i, depth) ==
    IF ~(i < Len(s)) THEN None
    ELSE IF StartsAt(s, i, <<"{", "{">>) THEN BlockScan(s, idx, i + 2, depth + 1)
    ELSE IF StartsAt(s, i, <<"}", "}">>)
    THEN IF depth - 1 = 0 THEN Some(Slice(s, idx, i + 1))
         ELSE BlockScan(s, idx, i + 2, depth - 1)
    ELSE BlockScan(s, idx, Min(FindIn(s, i + 1, {"{", "}"}), Len(s)), depth)

extract_infobox_block(wikitext) ==
    LET idx == FindFrom(wikitext, 1, <<"{","{","I","n","f","o","b","o","x">>)
    IN IF idx = 0 THEN None ELSE BlockScan(wikitext, idx, idx, 0)

\* parse_infobox_fields: the text between the outer braces
InfoboxInner(infobox_text) ==
    LET a == Strip(infobox_text)
        b == IF StartsAt(a, 1, <<"{", "{">>) THEN Slice(a, 3, Len(a)) ELSE a
        c == IF StartsAt(b, Len(b) - 1, <<"}", "}">>) THEN Slice(b, 1, Len(b) - 2) ELSE b
    IN Strip(c)

\* parse_infobox_fields: the while loop over rest, from index i.  The
\* characters up to the next brace or pipe are appended to current at once.
RECURSIVE ParamScan(_, _, _, _, _)
ParamScan(rest, i, depth, current, parts) ==
    IF i > Len(rest) THEN (IF current # <<>> THEN Append(parts, current) ELSE parts)
    ELSE IF StartsAt(rest, i, <<"{", "{">>)
    THEN ParamScan(rest, i + 2, depth + 1, current \o <<"{", "{">>, parts)
    ELSE IF StartsAt(rest, i, <<"}", "}">>)
    THEN ParamScan(rest, i + 2, depth - 1, current \o <<"}", "}">>, parts)
    ELSE IF rest[i] = "|" /\ depth = 0
    THEN ParamScan(rest, i + 1, depth, <<>>, Append(parts, current))
    ELSE ParamScan(rest, FindIn(rest, i + 1, {"{", "}", "|"}), depth,
                   current \o Slice(rest, i, FindIn(rest, i + 1, {"{", "}", "|"}) - 1),
                   parts)

\* fields[key] = value on a dict kept as a sequence of <<key, value>> in
\* insertion order: a key already there keeps its place and takes the value.
DictSet(d, key, value) ==
    IF \E k \in 1..Len(d) : d[k][1] = key
    THEN [k \in 1..Len(d) |-> IF d[k][1] = key THEN <<key, value>> ELSE d[k]]
    ELSE Append(d, <<key, value>>)

\* parse_infobox_fields: the loop over parts, from the k-th part
RECURSIVE FieldsFromParts(_, _, _)
FieldsFromParts(parts, k, d) ==
    IF k > Len(parts) THEN d
    ELSE LET part == parts[k]
             eq == FindIn(part, 1, {"="})
             key == Strip(Slice(part, 1, eq - 1))
             value == Strip(Slice(part, eq + 1, Len(part)))
         IN IF eq > Len(part) \/ key = <<>> THEN FieldsFromParts(parts, k + 1, d)
            ELSE FieldsFromParts(parts, k + 1, DictSet(d, key, value))

\* inner.split("|", 1)[1]
InfoboxRest(inner) == Slice(inner, FindIn(inner, 1, {"|"}) + 1, Len(inner))

parse_infobox_fields(infobox_text) ==
    LET inner == InfoboxInner(infobox_text)
    IN IF infobox_text = <<>> \/ FindIn(inner, 1, {"|"}) > Len(inner) THEN <<>>
       ELSE FieldsFromParts(ParamScan(InfoboxRest(inner), 1, 0, <<>>, <<>>), 1, <<>>)

clean_infobox_value(value) == clean_wikitext(value)

\* extract_infobox_field_clean: the loop over fields.items()
RECURSIVE FieldLookup(_, _, _)
FieldLookup(d, k, target) ==
    IF k > Len(d) THEN None
    ELSE IF Lower(Strip(d[k][1])) = target THEN Some(clean_infobox_value(d[k][2]))
    ELSE FieldLookup(d, k + 1, target)

\* extract_infobox_field_clean, on the wikitext of the page
extract_infobox_field_clean(wikitext, field_name) ==
    LET ib == extract_infobox_block(wikitext)
    IN IF ~ib.some THEN None
       ELSE FieldLookup(parse_infobox_fields(ib.val), 1, Lower(Strip(field_name)))

(***************************************************************************)
(* normalize_title and normalize_title_variants                            *)
(***************************************************************************)
\* re.sub(r"\s+", " ", s), from index i
RECURSIVE CollapseWs(_, _)
CollapseWs(s, i) ==
    IF i > Len(s) THEN <<>>
    ELSE IF s[i] \in Ws THEN <<SP>> \o CollapseWs(s, SkipIn(s, i, Ws))
    ELSE <<s[i]>> \o CollapseWs(s, i + 1)

normalize_title(s) == Lower(CollapseWs(Strip(s), 1))

\* \s*\([^)]+\)\s*$ matched at index p
ClarifierAt(s, p) ==
    LET q == SkipIn(s, p, Ws)
        g == FindIn(s, q + 1, {")"})
    IN /\ q <= Len(s) /\ s[q] = "("
       /\ g <= Len(s) /\ g > q + 1
       /\ SkipIn(s, g + 1, Ws) > Len(s)

\* re.sub(r'\s*\([^)]+\)\s*$', '', s): the leftmost match runs to the end
RemoveClarifier(s) ==
    IF \E p \in 1..Len(s) : ClarifierAt(s, p)
    THEN LET p == CHOOSE p \in 1..Len(s) :
                    ClarifierAt(s, p) /\ \A j \in 1..(p - 1) : ~ClarifierAt(s, j)
         IN Slice(s, 1, p - 1)
    ELSE s

\* normalize_title_variants without the variant that drops the clarifier.
\* The properties of the variants must tell it from normalize_title_variants.
VariantsFullOnly(s) == <<normalize_title(s)>>

normalize_title_variants(s) ==
    LET norm_full == normalize_title(s)
        without_clarifier == RemoveClarifier(s)
        norm_without == normalize_title(without_clarifier)
    IN IF without_clarifier # s /\ norm_without # norm_full
       THEN <<norm_full, norm_without>>
       ELSE <<norm_full>>


(***************************************************************************)
(* normalize_entity                                                        *)
(***************************************************************************)
UpperCh(c) ==
    IF \E k \in 1..26 : LowerCase[k] = c
    THEN UpperCase[CHOOSE k \in 1..26 : LowerCase[k] = c]
    ELSE c

\* str.upper()
Upper(s) == [k \in 1..Len(s) |-> UpperCh(s[k])]

\* The dict US_STATE_CODES, as its <<code, name>> items
US_STATE_CODES == <<
    <<<<"A", "L">>, <<"A", "l", "a", "b", "a", "m", "a">>>>,
    <<<<"A", "K">>, <<"A", "l", "a", "s", "k", "a">>>>,
    <<<<"A", "Z">>, <<"A", "r", "i", "z", "o", "n", "a">>>>,
    <<<<"A", "R">>, <<"A", "r", "k", "a", "n", "s", "a", "s">>>>,
    <<<<"C", "A">>, <<"C", "a", "l", "i", "f", "o", "r", "n", "i", "a">>>>,
    <<<<"C", "O">>, <<"C", "o", "l", "o", "r", "a", "d", "o">>>>,
    <<<<"C", "T">>, <<"C", "o", "n", "n", "e", "c", "t", "i", "c", "u", "t">>>>,
    <<<<"D", "E">>, <<"D", "e", "l", "a", "w", "a", "r", "e">>>>,
    <<<<"F", "L">>, <<"F", "l", "o", "r", "i", "d", "a">>>>,
    <<<<"G", "A">>, <<"G", "e", "o", "r", "g", "i", "a">>>>,
    <<<<"H", "I">>, <<"H", "a", "w", "a", "i", "i">>>>,
    <<<<"I", "D">>, <<"I", "d", "a", "h", "o">>>>,
    <<<<"I", "L">>, <<"I", "l", "l", "i", "n", "o", "i", "s">>>>,
    <<<<"I", "N">>, <<"I", "n", "d", "i", "a", "n", "a">>>>,
    <<<<"I", "A">>, <<"I", "o", "w", "a">>>>,
    <<<<"K", "S">>, <<"K", "a", "n", "s", "a", "s">>>>,
    <<<<"K", "Y">>, <<"K", "e", "n", "t", "u", "c", "k", "y">>>>,
    <<<<"L", "A">>, <<"L", "o", "u", "i", "s", "i", "a", "n", "a">>>>,
    <<<<"M", "E">>, <<"M", "a", "i", "n", "e">>>>,
    <<<<"M", "D">>, <<"M", "a", "r", "y", "l", "a", "n", "d">>>>,
    <<<<"M", "A">>, <<"M","a","s","s","a","c","h","u","s","e","t","t","s">>>>,
    <<<<"M", "I">>, <<"M", "i", "c", "h", "i", "g", "a", "n">>>>,
    <<<<"M", "N">>, <<"M", "i", "n", "n", "e", "s", "o", "t", "a">>>>,
    <<<<"M", "S">>, <<"M", "i", "s", "s", "i", "s", "s", "i", "p", "p", "i">>>>,
    <<<<"M", "O">>, <<"M", "i", "s", "s", "o", "u", "r", "i">>>>,
    <<<<"M", "T">>, <<"M", "o", "n", "t", "a", "n", "a">>>>,
    <<<<"N", "E">>, <<"N", "e", "b", "r", "a", "s", "k", "a">>>>,
    <<<<"N", "V">>, <<"N", "e", "v", "a", "d", "a">>>>,
    <<<<"N", "H">>, <<"N","e","w"," ","H","a","m","p","s","h","i","r","e">>>>,
    <<<<"N", "J">>, <<"N", "e", "w", " ", "J", "e", "r", "s", "e", "y">>>>,
    <<<<"N", "M">>, <<"N", "e", "w", " ", "M", "e", "x", "i", "c", "o">>>>,
    <<<<"N", "Y">>, <<"N", "e", "w", " ", "Y", "o", "r", "k">>>>,
    <<<<"N", "C">>, <<"N","o","r","t","h"," ","C","a","r","o","l","i","n","a">>>>,
    <<<<"N", "D">>, <<"N", "o", "r", "t", "h", " ", "D", "a", "k", "o", "t", "a">>>>,
    <<<<"O", "H">>, <<"O", "h", "i", "o">>>>,
    <<<<"O", "K">>, <<"O", "k", "l", "a", "h", "o", "m", "a">>>>,
    <<<<"O", "R">>, <<"O", "r", "e", "g", "o", "n">>>>,
    <<<<"P", "A">>, <<"P", "e", "n", "n", "s", "y", "l", "v", "a", "n", "i", "a">>>>,
    <<<<"R", "I">>, <<"R", "h", "o", "d", "e", " ", "I", "s", "l", "a", "n", "d">>>>,
    <<<<"S", "C">>, <<"S","o","u","t","h"," ","C","a","r","o","l","i","n","a">>>>,
    <<<<"S", "D">>, <<"S", "o", "u", "t", "h", " ", "D", "a", "k", "o", "t", "a">>>>,
    <<<<"T", "N">>, <<"T", "e", "n", "n", "e", "s", "s", "e", "e">>>>,
    <<<<"T", "X">>, <<"T", "e", "x", "a", "s">>>>,
    <<<<"U", "T">>, <<"U", "t", "a", "h">>>>,
    <<<<"V", "T">>, <<"V", "e", "r", "m", "o", "n", "t">>>>,
    <<<<"V", "A">>, <<"V", "i", "r", "g", "i", "n", "i", "a">>>>,
    <<<<"W", "A">>, <<"W", "a", "s", "h", "i", "n", "g", "t", "o", "n">>>>,
    <<<<"W", "V">>, <<"W","e","s","t"," ","V","i","r","g","i","n","i","a">>>>,
    <<<<"W", "I">>, <<"W", "i", "s", "c", "o", "n", "s", "i", "n">>>>,
    <<<<"W", "Y">>, <<"W", "y", "o", "m", "i", "n", "g">>>>,
    <<<<"D", "C">>, <<"W","a","s","h","i","n","g","t","o","n",","," ","D",".","C",".">>>> >>

\* state_code in US_STATE_CODES
IsStateCode(code) == \E k \in 1..Len(US_STATE_CODES) : US_STATE_CODES[k][1] = code

\* US_STATE_CODES[state_code]
StateName(code) ==
    US_STATE_CODES[CHOOSE k \in 1..Len(US_STATE_CODES) : US_STATE_CODES[k][1] = code][2]

UnitedStates == <<"U","n","i","t","e","d"," ","S","t","a","t","e","s">>
USA == <<"U", "S", "A">>

\* normalize_entity without its two special cases.  The properties of the
\* mention normalisation must tell it from normalize_entity.
NormalizeOnly(entity_value, entity_type, country) == normalize_title(entity_value)

\* normalize_entity; a country of None or "" is the empty text here
normalize_entity(entity_value, entity_type, country) ==
    IF entity_type = "country" /\ Upper(entity_value) = USA
    THEN normalize_title(UnitedStates)
    ELSE IF /\ entity_type = "city" /\ country # <<>> /\ Upper(country) = USA
            /\ IsStateCode(Upper(Strip(entity_value)))
    THEN normalize_title(StateName(Upper(Strip(entity_value))))
    ELSE normalize_title(entity_value)

(***************************************************************************)
(* detect_page_type.  A page text is the list of the lines of the page;    *)
(* each line carries `marks`, the names of the substring and regular       *)
(* expression tests of the source that succeed on it ("artist1" is the     *)
(* first of artist_patterns, ...), and `text`, its wikitext.               *)
(***************************************************************************)
artist_patterns == <<"artist1", "artist2", "artist3">>
venue_patterns == <<"venue1", "venue2", "venue3">>
city_patterns == <<"city1", "city2", "city3">>
country_patterns == <<"country1", "country2">>

\* re.search(pattern, page_text, re.IGNORECASE) / literal in page_text.lower()
Marked(page_text, mark) == \E k \in 1..Len(page_text) : mark \in page_text[k].marks

\* The loop "for pattern in patterns: if re.search(...): scores[t] += 1"
Score(patterns, page_text) ==
    Cardinality({k \in 1..Len(patterns) : Marked(page_text, patterns[k])})

NoType == "None"
\* The keys of scores, in insertion order
ScoreOrder == <<"country", "city", "venue", "artist">>

Scores(page_text) ==
    [t \in {"country", "city", "venue", "artist"} |->
        CASE t = "country" -> Score(country_patterns, page_text)
          [] t = "city"    -> Score(city_patterns, page_text)
          [] t = "venue"   -> Score(venue_patterns, page_text)
          [] t = "artist"  -> Score(artist_patterns, page_text)]

\* detect_page_type returning the first type, in the order of the keys, that
\* has a signal at all.  The properties of the classification must tell it
\* from detect_page_type.
DetectFirstSignalled(page_text) ==
    IF \A k \in 1..4 : Scores(page_text)[ScoreOrder[k]] = 0 THEN NoType
    ELSE ScoreOrder[CHOOSE k \in 1..4 :
                       /\ Scores(page_text)[ScoreOrder[k]] > 0
                       /\ \A j \in 1..(k - 1) : Scores(page_text)[ScoreOrder[j]] = 0]

\* The last key, in insertion order, whose score is the maximum.  The
\* property of the ties must tell it from detect_page_type.
DetectLastTied(page_text) ==
    LET scores == Scores(page_text)
        max_score == CHOOSE m \in {scores[t] : t \in DOMAIN scores} :
                        \A t \in DOMAIN scores : scores[t] <= m
        last == CHOOSE k \in 1..4 :
                    /\ scores[ScoreOrder[k]] = max_score
                    /\ \A j \in (k + 1)..4 : scores[ScoreOrder[j]] # max_score
    IN IF max_score > 0 THEN ScoreOrder[last] ELSE NoType

\* max(scores, key=scores.get): the first key, in insertion order, whose
\* score is the maximum
detect_page_type(page_text) ==
    LET scores == Scores(page_text)
        max_score == CHOOSE m \in {scores[t] : t \in DOMAIN scores} :
                        \A t \in DOMAIN scores : scores[t] <= m
        first == CHOOSE k \in 1..4 :
                    /\ scores[ScoreOrder[k]] = max_score
                    /\ \A j \in 1..(k - 1) : scores[ScoreOrder[j]] # max_score
    IN IF max_score > 0 THEN ScoreOrder[first] ELSE NoType

(***************************************************************************)
(* process_wiki_page                                                       *)
(***************************************************************************)
\* get_wikitext_from_page: the text of the page's <text> element
RECURSIVE WikitextFrom(_, _)
WikitextFrom(page_text, k) ==
    IF k > Len(page_text) THEN <<>>
    ELSE page_text[k].text \o WikitextFrom(page_text, k + 1)

get_wikitext_from_page(page_text) == WikitextFrom(page_text, 1)

\* "if raw is None: return None", then clean_wikitext(raw)
CleanRaw(raw) ==
    IF ~raw.some THEN None ELSE Some(clean_wikitext(raw.val))

extract_section_clean(page_text, section_name) ==
    CleanRaw(find_section_block(get_wikitext_from_page(page_text), section_name))

\* The section names tried for each entity type
BioSections(entity_type) ==
    CASE entity_type = "artist" -> <<
        <<"H","i","s","t","o","r","y">>,
        <<"B","a","c","k","g","r","o","u","n","d">>,
        <<"H","i","s","t","o","r","y"," ","a","n","d"," ","b","a","c","k","g","r","o","u","n","d">>,
        <<"C","a","r","e","e","r">>,
        <<"E","a","r","l","y"," ","l","i","f","e">>,
        <<"E","a","r","l","y"," ","l","i","f","e"," ","a","n","d"," ","c","a","r","e","e","r">>,
        <<"F","o","r","m","a","t","i","o","n">>,
        <<"F","o","r","m","a","t","i","o","n"," ","a","n","d"," ","e","a","r","l","y"," ","y","e","a","r","s">> >>
      [] entity_type = "venue" -> <<
        <<"H","i","s","t","o","r","y">>,
        <<"B","a","c","k","g","r","o","u","n","d">>,
        <<"O","v","e","r","v","i","e","w">> >>
      [] entity_type = "city" -> <<
        <<"H","i","s","t","o","r","y">>,
        <<"O","v","e","r","v","i","e","w">>,
        <<"G","e","o","g","r","a","p","h","y">> >>
      [] entity_type = "country" -> <<
        <<"H","i","s","t","o","r","y">>,
        <<"O","v","e","r","v","i","e","w">> >>
      [] OTHER -> <<>>

Discography == <<"D","i","s","c","o","g","r","a","p","h","y">>

\* The infobox fields extracted for each entity type
InfoboxFields(entity_type) ==
    CASE entity_type = "artist" -> <<
        [key |-> "current_members", name |-> <<"c","u","r","r","e","n","t","_","m","e","m","b","e","r","s">>],
        [key |-> "years_active", name |-> <<"y","e","a","r","s","_","a","c","t","i","v","e">>],
        [key |-> "genre", name |-> <<"g","e","n","r","e">>],
        [key |-> "origin", name |-> <<"o","r","i","g","i","n">>],
        [key |-> "birth_name", name |-> <<"b","i","r","t","h","_","n","a","m","e">>],
        [key |-> "website", name |-> <<"w","e","b","s","i","t","e">>] >>
      [] entity_type = "venue" -> <<
        [key |-> "capacity", name |-> <<"c","a","p","a","c","i","t","y">>],
        [key |-> "location", name |-> <<"l","o","c","a","t","i","o","n">>],
        [key |-> "opened", name |-> <<"o","p","e","n","e","d">>] >>
      [] entity_type = "city" -> <<
        [key |-> "area", name |-> <<"a","r","e","a">>],
        [key |-> "population", name |-> <<"p","o","p","u","l","a","t","i","o","n">>] >>
      [] entity_type = "country" -> <<
        [key |-> "capital", name |-> <<"c","a","p","i","t","a","l">>],
        [key |-> "population", name |-> <<"p","o","p","u","l","a","t","i","o","n">>],
        [key |-> "area", name |-> <<"a","r","e","a">>] >>
      [] OTHER -> <<>>

\* The loop collecting bio_parts, already joined with "\n\n"
\* "if txt: bio_parts.append(txt)", as the list it adds
BioPart(txt) == IF txt.some /\ txt.val # <<>> THEN <<txt.val>> ELSE <<>>

\* bio_parts after the loop "for section_name in [...]", from the k-th name
RECURSIVE BioParts(_, _, _)
BioParts(page_text, names, k) ==
    IF k > Len(names) THEN <<>>
    ELSE BioPart(extract_section_clean(page_text, names[k]))
         \o BioParts(page_text, names, k + 1)

\* "\n\n".join(parts), from the k-th part
RECURSIVE JoinFrom(_, _)
JoinFrom(parts, k) ==
    IF k > Len(parts) THEN <<>>
    ELSE IF k = Len(parts) THEN parts[k]
    ELSE parts[k] \o <<NL, NL>> \o JoinFrom(parts, k + 1)

\* bio = "\n\n".join(bio_parts) if bio_parts else None
BioJoin(bio_parts) == IF bio_parts = <<>> THEN None ELSE Some(JoinFrom(bio_parts, 1))

\* The key the joined bio is stored under
BioKey(entity_type) ==
    CASE entity_type = "artist" -> "artist_bio"
      [] entity_type = "venue" -> "venue_bio"
      [] entity_type = "city" -> "city_bio"
      [] entity_type = "country" -> "country_bio"

\* result["sections"]
\* result["sections"][key] = txt under "if txt:"
SectionSet(sections, key, txt) ==
    IF txt.some /\ txt.val # <<>> THEN Append(sections, <<key, txt.val>>)
    ELSE sections

SectionsOf(page_text, entity_type) ==
    SectionSet(SectionSet(<<>>, BioKey(entity_type),
                          BioJoin(BioParts(page_text, BioSections(entity_type), 1))),
               "discography",
               IF entity_type = "artist"
               THEN extract_section_clean(page_text, Discography)
               ELSE None)

\* The loop "for field in infobox_fields", from the k-th field
RECURSIVE InfoboxOf(_, _, _, _)
\* The infobox field stored whatever its value, an empty one too.  The
\* properties of the emitted keys must tell it from InfoboxSet.
InfoboxSetAnyway(d, key, value) == DictSet(d, key, value.val)

\* result["infobox_fields"][field] = value under "if value:"
InfoboxSet(d, key, value) ==
    IF value.some /\ value.val # <<>> THEN DictSet(d, key, value.val) ELSE d

InfoboxOf(page_text, flds, k, d) ==
    IF k > Len(flds) THEN d
    ELSE InfoboxOf(page_text, flds, k + 1,
                   InfoboxSet(d, flds[k].key,
                              extract_infobox_field_clean(
                                  get_wikitext_from_page(page_text), flds[k].name)))

\* process_wiki_page without its test for disambiguation pages.  The
\* rejection properties must tell it from process_wiki_page.
ProcessUnfiltered(row) ==
    [title |-> row.title, title_norm |-> Strip(Lower(row.title)),
     entity_type |-> row.entity_type,
     sections |-> SectionsOf(row.page_text, row.entity_type),
     infobox_fields |-> InfoboxOf(row.page_text, InfoboxFields(row.entity_type),
                                  1, <<>>)]

process_wiki_page(row) ==
    IF \/ Marked(row.page_text, "may refer to")
       \/ Marked(row.page_text, "{{disambiguation")
       \/ Marked(row.page_text, "#redirect")
    THEN [title |-> row.title, title_norm |-> Strip(Lower(row.title)),
          entity_type |-> "unknown", sections |-> <<>>, infobox_fields |-> <<>>]
    ELSE [title |-> row.title, title_norm |-> Strip(Lower(row.title)),
          entity_type |-> row.entity_type,
          sections |-> SectionsOf(row.page_text, row.entity_type),
          infobox_fields |-> InfoboxOf(row.page_text, InfoboxFields(row.entity_type),
                                       1, <<>>)]


(***************************************************************************)
(* parse_partition: one iteration of "for line in lines_iter" per step.    *)
(* A line is a record of what the tests of the loop see in it:             *)
(*   page, endpage, redirect   "<page>", "</page>", "<redirect" in line    *)
(*   title   what title_re captures when "<title>" and "</title>" are in   *)
(*           the line, ns what ns_re captures                              *)
(***************************************************************************)
\* The categories whose mention set holds the variant, in the order of the
\* four tests
TypesOf(variant, m) ==
    (IF variant \in m.country THEN <<"country">> ELSE <<>>)
    \o (IF variant \in m.city THEN <<"city">> ELSE <<>>)
    \o (IF variant \in m.artist THEN <<"artist">> ELSE <<>>)
    \o (IF variant \in m.venue THEN <<"venue">> ELSE <<>>)

\* The loop "for variant in title_variants", from the k-th variant
RECURSIVE RequestedFrom(_, _, _)
RequestedFrom(variants, k, m) ==
    IF k > Len(variants) THEN <<>>
    ELSE TypesOf(variants[k], m) \o RequestedFrom(variants, k + 1, m)

\* list(dict.fromkeys(l)): the first occurrence of each element, in order
Dedup(l) ==
    LET keep == {k \in 1..Len(l) : \A j \in 1..(k - 1) : l[j] # l[k]}
        F[k \in 0..Len(l)] ==
            IF k = 0 THEN <<>>
            ELSE IF k \in keep THEN Append(F[k - 1], l[k]) ELSE F[k - 1]
    IN F[Len(l)]

requested_types(title_variants, m) == Dedup(RequestedFrom(title_variants, 1, m))

InSeq(x, l) == \E k \in 1..Len(l) : l[k] = x

\* The detected type left as it is, with no fallback.  The properties of the
\* fallback must tell it from Fallback.
NoFallback(detected, requested) == detected

\* The fallback applied when detect_page_type returns None
Fallback(detected, requested) ==
    IF detected # NoType THEN detected
    ELSE IF InSeq("city", requested) THEN "city"
    ELSE IF InSeq("country", requested) THEN "country"
    ELSE NoType

\* parse_partition yielding the detected type whether it was requested or
\* not.  The acceptance properties must tell it from YieldOf.
YieldUnchecked(t, page_text, m) ==
    << [title |-> t,
        title_norm |-> normalize_title_variants(t)[Len(normalize_title_variants(t))],
        page_text |-> page_text,
        entity_type |-> Fallback(detect_page_type(page_text),
                                 requested_types(normalize_title_variants(t), m))] >>

\* What parse_partition yields at "</page>" for a page that passed the
\* namespace, redirect and title tests: a list of one Row, or none
YieldOf(t, page_text, m) ==
    LET title_variants == normalize_title_variants(t)
        requested == requested_types(title_variants, m)
        detected_type == Fallback(detect_page_type(page_text), requested)
    IN IF requested # <<>> /\ InSeq(detected_type, requested)
       THEN << [title |-> t,
                title_norm |-> title_variants[Len(title_variants)],
                page_text |-> page_text,
                entity_type |-> detected_type] >>
       ELSE <<>>

Disambiguation == <<"(","d","i","s","a","m","b","i","g","u","a","t","i","o","n",")">>

\* parse_partition if "<page>" did not start the page afresh: the line is
\* added to the buffer, and the title, the redirect flag and the namespace
\* stay as the lines before left them.  The property that a page is judged
\* by its own lines must tell it from ParseLine.
ParseLineCarrying ==
    /\ stage = "parse"
    /\ lines # <<>>
    /\ LET line == Head(lines)
           buffer1 == Append(buffer, line)
           title1 == IF line.title.some THEN line.title ELSE title
           redirect1 == is_redirect \/ line.redirect
           ns1 == IF line.ns.some THEN line.ns ELSE namespace
       IN /\ lines' = Tail(lines)
          /\ IF line.page
             THEN /\ in_page' = TRUE
                  /\ buffer' = buffer1
                  /\ UNCHANGED <<title, is_redirect, namespace, pages_rdd>>
             ELSE IF ~in_page
             THEN UNCHANGED <<in_page, buffer, title, is_redirect, namespace, pages_rdd>>
             ELSE IF ~line.endpage
             THEN /\ buffer' = buffer1
                  /\ title' = title1
                  /\ is_redirect' = redirect1
                  /\ namespace' = ns1
                  /\ UNCHANGED <<in_page, pages_rdd>>
             ELSE /\ pages_rdd' =
                        IF /\ title1.some /\ title1.val # <<>> /\ ~redirect1 /\ ns1 = Some(0)
                           /\ ~Contains(Lower(title1.val), Disambiguation)
                        THEN pages_rdd \o YieldOf(title1.val, buffer1, mentions)
                        ELSE pages_rdd
                  /\ in_page' = FALSE
                  /\ buffer' = <<>>
                  /\ title' = None
                  /\ is_redirect' = FALSE
                  /\ namespace' = None
    /\ UNCHANGED <<wiki_df, wiki_processed_df, stage, mentions, dump, source_df>>
    /\ UNCHANGED <<textVars, crawlVars>>

ParseLine ==
    /\ stage = "parse"
    /\ lines # <<>>
    /\ LET line == Head(lines)
           buffer1 == Append(buffer, line)
           title1 == IF line.title.some THEN line.title ELSE title
           redirect1 == is_redirect \/ line.redirect
           ns1 == IF line.ns.some THEN line.ns ELSE namespace
       IN /\ lines' = Tail(lines)
          /\ IF line.page
             THEN /\ in_page' = TRUE
                  /\ buffer' = <<line>>
                  /\ title' = None
                  /\ is_redirect' = FALSE
                  /\ namespace' = None
                  /\ UNCHANGED pages_rdd
             ELSE IF ~in_page
             THEN UNCHANGED <<in_page, buffer, title, is_redirect, namespace, pages_rdd>>
             ELSE IF ~line.endpage
             THEN /\ buffer' = buffer1
                  /\ title' = title1
                  /\ is_redirect' = redirect1
                  /\ namespace' = ns1
                  /\ UNCHANGED <<in_page, pages_rdd>>
             ELSE IF /\ title1.some /\ title1.val # <<>>
                     /\ ~redirect1
                     /\ ns1 = Some(0)
                     /\ Contains(Lower(title1.val), Disambiguation)
             THEN \* the "continue" of the disambiguation filter
                  /\ in_page' = FALSE
                  /\ buffer' = <<>>
                  /\ title' = None
                  /\ is_redirect' = redirect1
                  /\ namespace' = ns1
                  /\ UNCHANGED pages_rdd
             ELSE /\ pages_rdd' =
                        IF title1.some /\ title1.val # <<>> /\ ~redirect1 /\ ns1 = Some(0)
                        THEN pages_rdd \o YieldOf(title1.val, buffer1, mentions)
                        ELSE pages_rdd
                  /\ in_page' = FALSE
                  /\ buffer' = <<>>
                  /\ title' = None
                  /\ is_redirect' = FALSE
                  /\ namespace' = None
    /\ UNCHANGED <<wiki_df, wiki_processed_df, stage, mentions, dump, source_df>>
    /\ UNCHANGED <<textVars, crawlVars>>

(***************************************************************************)
(* The DataFrame stages of main                                            *)
(***************************************************************************)
\* The rows of df at the indices in keep, in order
Select(df, keep) ==
    LET F[k \in 0..Len(df)] ==
            IF k = 0 THEN <<>>
            ELSE IF k \in keep THEN Append(F[k - 1], df[k]) ELSE F[k - 1]
    IN F[Len(df)]

KeyOf(row, cols) == [c \in cols |-> row[c]]

\* A dropDuplicates that drops nothing.  The uniqueness properties must tell
\* it from dropDuplicates.
KeepEveryRow(df, cols, keep) == keep = 1..Len(df)

\* DataFrame.dropDuplicates(cols): `keep` holds the index of exactly one row
\* for each value of the columns; which row is kept is not specified
dropDuplicates(df, cols, keep) ==
    /\ keep \subseteq 1..Len(df)
    /\ \A k \in 1..Len(df) :
          Cardinality({j \in keep : KeyOf(df[j], cols) = KeyOf(df[k], cols)}) = 1

\* wiki_df = wiki_df.dropDuplicates(["title_norm"]), once the dump is read
DropDuplicateTitles ==
    /\ stage = "parse"
    /\ lines = <<>>
    /\ \E keep \in SUBSET (1..Len(pages_rdd)) :
          /\ dropDuplicates(pages_rdd, {"title_norm"}, keep)
          /\ wiki_df' = Select(pages_rdd, keep)
    /\ stage' = "process"
    /\ UNCHANGED <<lines, in_page, buffer, title, is_redirect, namespace,
                   pages_rdd, wiki_processed_df, mentions, dump, source_df>>
    /\ UNCHANGED <<textVars, crawlVars>>

\* F.lower(F.trim(col)): Spark's trim removes the spaces at both ends
LowerTrim(x) == Lower(StripChars(x, {SP}))

\* .withColumn("title_norm", F.lower(F.trim(F.col("title_norm")))) on a row
WithTitleNorm(r) == [r EXCEPT !.title_norm = LowerTrim(r.title_norm)]

\* wiki_df.rdd.map(process_wiki_page), then the title_norm column rewritten
ProcessPages ==
    /\ stage = "process"
    /\ wiki_processed_df' =
          [k \in 1..Len(wiki_df) |-> WithTitleNorm(process_wiki_page(wiki_df[k]))]
    /\ source_df' = wiki_df
    /\ stage' = "filter"
    /\ UNCHANGED <<lines, in_page, buffer, title, is_redirect, namespace,
                   pages_rdd, wiki_df, mentions, dump>>
    /\ UNCHANGED <<textVars, crawlVars>>

\* The indices of the rows that pass .filter(F.col("entity_type") != "unknown")
KnownRows(df) == {k \in 1..Len(df) : df[k].entity_type # "unknown"}

\* .filter(F.col("entity_type") != "unknown")
Known(df) == Select(df, KnownRows(df))

\* .filter(...).dropDuplicates(["entity_type", "title_norm"]); source_df keeps
\* the rows of wiki_df at the places of the rows that remain
FilterAndDeduplicate ==
    /\ stage = "filter"
    /\ LET known == Known(wiki_processed_df)
       IN \E keep \in SUBSET (1..Len(known)) :
             /\ dropDuplicates(known, {"entity_type", "title_norm"}, keep)
             /\ wiki_processed_df' = Select(known, keep)
             /\ source_df' = Select(Select(source_df, KnownRows(wiki_processed_df)), keep)
    /\ stage' = "done"
    /\ UNCHANGED <<lines, in_page, buffer, title, is_redirect, namespace,
                   pages_rdd, wiki_df, mentions, dump>>
    /\ UNCHANGED <<textVars, crawlVars>>


\* normalize_for_wiki of main, for a value that is not empty; a country of
\* None or "" is the empty text here
normalize_for_wiki(value, country) ==
    IF Upper(Strip(value)) = USA THEN Lower(UnitedStates)
    ELSE IF /\ country # <<>> /\ Upper(Strip(country)) = USA
            /\ IsStateCode(Upper(Strip(value)))
    THEN Lower(StateName(Upper(Strip(value))))
    ELSE Lower(Strip(value))

\* The columns artist_norm, venue_norm, country_norm and city_norm of
\* setlist_df_norm: the keys the events are joined on
JoinKey(value, entity_type, country) ==
    CASE entity_type \in {"artist", "venue"} -> LowerTrim(value)
      [] entity_type = "country" -> normalize_for_wiki(value, <<>>)
      [] entity_type = "city" -> normalize_for_wiki(value, country)

(***************************************************************************)
(* The pipeline's inputs: the dump, as pages written out in lines, and the *)
(* broadcast mention sets.                                                 *)
(***************************************************************************)
MaxPages == 2

BlankLine == [page |-> FALSE, endpage |-> FALSE, redirect |-> FALSE,
              title |-> None, ns |-> None, marks |-> {}, text |-> <<>>]

\* The lines of one <page> element of the dump
PageLines(p) ==
    << [BlankLine EXCEPT !.page = TRUE],
       [BlankLine EXCEPT !.title = Some(p.title)],
       [BlankLine EXCEPT !.ns = Some(p.ns)] >>
    \o (IF p.redirect THEN << [BlankLine EXCEPT !.redirect = TRUE] >> ELSE <<>>)
    \o << [BlankLine EXCEPT !.marks = p.marks, !.text = p.text],
          [BlankLine EXCEPT !.endpage = TRUE] >>

StickyFingersBand == <<"S","t","i","c","k","y"," ","F","i","n","g","e","r","s"," ","(","b","a","n","d",")">>
Chicago == <<"C","h","i","c","a","g","o">>
ChicagoBand == <<"C","h","i","c","a","g","o"," ","(","b","a","n","d",")">>
ChicagoDisambiguation == <<"C","h","i","c","a","g","o"," ","(","d","i","s","a","m","b","i","g","u","a","t","i","o","n",")">>
ChicagoLower == <<"c","h","i","c","a","g","o">>
ChicagoText == <<"{","{","I","n","f","o","b","o","x"," ","s","e","t","t","l","e","m","e","n","t","|","a","r","e","a","=","1","|","x","=","{","{","a","|","b","}","}","}","}","=","=","H","i","s","t","o","r","y","=","=","O","l","d">>

\* A page whose infobox values and first section are markup alone
ChicagoSparse == <<"{","{","I","n","f","o","b","o","x"," ","s","e","t","t","l","e","m","e","n","t","|","a","r","e","a","=","{","{","a","}","}","|","p","o","p","u","l","a","t","i","o","n","=","}","}","=","=","H","i","s","t","o","r","y","=","=","{","{","b","}","}","=","=","O","v","e","r","v","i","e","w","=","=","B","i","g">>

Page(t, n, r, m, w) == [title |-> t, ns |-> n, redirect |-> r, marks |-> m, text |-> w]

\* The pages a dump is made of here: content pages of each kind, and one
\* page for each reason a page is dropped
DumpPages == {
    Page(StickyFingersBand, 0, FALSE, {"artist1"}, <<>>),
    Page(Chicago, 0, FALSE, {"city2"}, ChicagoText),
    Page(Chicago, 0, FALSE, {"city2"}, ChicagoSparse),
    Page(ChicagoBand, 0, FALSE, {"artist1", "artist2"}, <<>>),
    Page(ChicagoLower, 0, FALSE, {"city1"}, <<>>),
    Page(Chicago, 0, FALSE, {}, <<>>),
    Page(ChicagoDisambiguation, 0, FALSE, {"may refer to"}, <<>>),
    Page(Chicago, 0, FALSE, {"may refer to"}, <<>>),
    Page(Chicago, 0, FALSE, {"{{disambiguation", "city1"}, <<>>),
    Page(Chicago, 0, TRUE, {"city1"}, <<>>),
    Page(Chicago, 1, FALSE, {"city1"}, <<>>) }

\* A redirect page that is cut off before its "</page>", and the rest of a
\* page whose "<page>" line is not in the partition
CutPage == SubSeq(PageLines(Page(Chicago, 0, TRUE, {"city1"}, <<>>)), 1, 5)
TailOfPage == SubSeq(PageLines(Page(Chicago, 0, FALSE, {"city1"}, <<>>)), 2, 5)

\* What a partition is made of: whole pages and the two pieces of pages
DumpPieces == {PageLines(p) : p \in DumpPages} \cup {CutPage, TailOfPage}

RECURSIVE Partitions(_)
\* The partitions of n pages or pieces, as lists of lines
Partitions(n) ==
    IF n = 0 THEN {<<>>}
    ELSE {piece \o rest : piece \in DumpPieces, rest \in Partitions(n - 1)}

NameChicago == <<"c","h","i","c","a","g","o">>
NameStickyFingers == <<"s","t","i","c","k","y"," ","f","i","n","g","e","r","s">>

NoMentions == [country |-> {}, city |-> {}, artist |-> {}, venue |-> {}]

\* The mention sets a run may be given
MentionSets == {
    [NoMentions EXCEPT !.artist = {NameStickyFingers, NameChicago}],
    [NoMentions EXCEPT !.city = {NameChicago}],
    [NoMentions EXCEPT !.artist = {NameStickyFingers, NameChicago},
                       !.city = {NameChicago}],
    [NoMentions EXCEPT !.country = {NameChicago}, !.venue = {NameChicago}] }

TextIdle ==
    /\ input = <<>> /\ arg = <<>> /\ op = "idle"
    /\ out = None /\ prev = <<>> /\ fields = <<>>

Init ==
    /\ stage = "parse"
    /\ lines \in UNION {Partitions(n) : n \in 0..MaxPages}
    /\ dump = lines
    /\ source_df = <<>>
    /\ mentions \in MentionSets
    /\ in_page = FALSE
    /\ buffer = <<>>
    /\ title = None
    /\ is_redirect = FALSE
    /\ namespace = None
    /\ pages_rdd = <<>>
    /\ wiki_df = <<>>
    /\ wiki_processed_df = <<>>
    /\ TextIdle
    /\ CrawlIdle

Next ==
    \/ ParseLine
    \/ DropDuplicateTitles
    \/ ProcessPages
    \/ FilterAndDeduplicate

Spec == Init /\ [][Next]_vars


(***************************************************************************)
(* SpecText: the text functions applied to one input.  The inputs are the  *)
(* markup examples of the documentation and small families around them.    *)
(***************************************************************************)
\* The deepest heading level of the section inputs
MaxLevel == 3
\* The deepest nesting of the template and table inputs
MaxNest == 2
\* The longest run of spaces and newlines in the plain inputs
MaxGap == 4

\* "=" * l
Equals(l) == [k \in 1..l |-> "="]

\* A page with the sections A, B and C, where B's heading has level l
HeadingDoc(l) ==
    <<"=","=","A","=","=",NL,"t","e","x","t","1",NL>> \o Equals(l) \o <<"B">> \o Equals(l) \o <<NL,"t","e","x","t","2",NL,"=","=","C","=","=",NL,"t","e","x","t","3">>

SectionInputs == {HeadingDoc(l) : l \in 2..MaxLevel}
SectionNames == {<<"A">>, <<"B">>, <<"C">>, <<"H","i","s","t","o","r","y">>,
                 <<"O","v","e","r","v","i","e","w">>}

RECURSIVE NestedTemplate(_)
\* {{b|c}} inside d - 1 templates {{a|...|d}}
NestedTemplate(d) ==
    IF d = 1 THEN <<"{","{","b","|","c","}","}">>
    ELSE <<"{","{","a","|">> \o NestedTemplate(d - 1) \o <<"|","d","}","}">>

TemplateText(d) == <<"x"," ">> \o NestedTemplate(d) \o <<" ","y">>
TemplateInputs == {TemplateText(d) : d \in 1..MaxNest}

RECURSIVE NestedTable(_)
\* {|\ninner|} inside d - 1 tables {|\nrow...\n|}
NestedTable(d) ==
    IF d = 1 THEN <<"{","|",NL,"i","n","n","e","r","|","}">>
    ELSE <<"{","|",NL,"r","o","w">> \o NestedTable(d - 1) \o <<NL,"|","}">>

TableText(d) == <<"b","e","f","o","r","e">> \o NestedTable(d) \o <<"a","f","t","e","r">>
TableInputs == {TableText(d) : d \in 1..MaxNest}

LinkTargets == {<<"S","t","i","c","k","y"," ","F","i","n","g","e","r","s">>, <<"P","a","r","i","s">>, <<"C","a","t","e","g","o","r","y",":","R","o","c","k">>}
LinkLabels == {<<"t","h","e"," ","b","a","n","d">>, <<"L","i","v","e",":"," ","1","9","7","5">>}
PipedLink(target, label) == <<"[","[">> \o target \o <<"|">> \o label \o <<"]","]">>
BareLink(target) == <<"[","[">> \o target \o <<"]","]">>
LinkInputs ==
    {PipedLink(t, l) : t \in LinkTargets, l \in LinkLabels}
    \cup {BareLink(t) : t \in LinkTargets}

\* Texts without markup: two letters with spaces and newlines between them
Gaps == UNION {[1..n -> {SP, NL}] : n \in 1..MaxGap}
PlainText(gap) == <<"a">> \o gap \o <<"a">>
PlainInputs == {PlainText(gap) : gap \in Gaps}

\* References: a self-closing <ref .../> tag, prose, and a <ref>...</ref>
\* block, between two letters; and each kind of reference alone
RefSelf == <<"<","r","e","f"," ","n","a","m","e","=","n","/",">">>
RefBlock == <<"<","r","e","f",">","c","i","t","e","<","/","r","e","f",">">>
RefProses == {<<"l", "i", "v", "e">>, <<" ", "i", "n", " ", "1", "9", "7", "5", " ">>}
RefDoc(prose) == <<"a">> \o RefSelf \o prose \o RefBlock \o <<"b">>
RefInputs ==
    {RefDoc(prose) : prose \in RefProses}
    \cup {<<"a">> \o RefSelf \o <<"b">>, <<"a">> \o RefBlock \o <<"b">>}

InfoboxBand == <<"{","{","I","n","f","o","b","o","x"," ","b","a","n","d","|","n","a","m","e","=","F","o","o","|","g","e","n","r","e","=","R","o","c","k","|","o","r","i","g","i","n","=","U","S","A","}","}">>
InfoboxNestedValue == <<"{","{","I","n","f","o","b","o","x"," ","b","a","n","d","|","g","e","n","r","e","=","{","{","h","l","i","s","t","|","R","o","c","k","|","P","o","p","}","}","|","o","r","i","g","i","n","=","U","S","A","}","}">>
InfoboxBarePart == <<"{","{","I","n","f","o","b","o","x"," ","b","a","n","d","|","x","|","n","a","m","e","=","a","=","b","}","}">>
InfoboxNestedName == <<"{","{","I","n","f","o","b","o","x"," ","{","{","a","|","b","=","c","}","}","|","d","=","e","}","}">>
InfoboxTwice == <<"{","{","I","n","f","o","b","o","x"," ","b","a","n","d","|","g","e","n","r","e","=","R","o","c","k","|","o","r","i","g","i","n","=","U","S","A","|","g","e","n","r","e","=","P","o","p","}","}">>
InfoboxTwiceCased == <<"{","{","I","n","f","o","b","o","x"," ","b","a","n","d","|","G","e","n","r","e","=","R","o","c","k","|","g","e","n","r","e","=","P","o","p","}","}">>
InfoboxInputs == {InfoboxBand, InfoboxNestedValue, InfoboxBarePart, InfoboxNestedName,
                  InfoboxTwice, InfoboxTwiceCased}
FieldNames == {<<"g","e","n","r","e">>, <<"o","r","i","g","i","n">>}

\* A heading of level l that stands at the start of the text or follows a
\* letter without a newline between them
HeadingLine(prefix, l) == prefix \o Equals(l) \o <<"a">> \o Equals(l)
HeadingInputs == {HeadingLine(p, l) : p \in {<<>>, <<"x">>}, l \in 2..MaxLevel}

\* Texts in which a table or a template opens and is never closed
UnclosedTable == <<"b","e","f","o","r","e","{","|",NL,"r","o","w">>
UnclosedOuterTable == <<"b","e","f","o","r","e","{","|",NL,"r","o","w","{","|",NL,"i","n","n","e","r","|","}","a","f","t","e","r">>
UnclosedTemplate == <<"x"," ","{","{","a","|","b">>
UnclosedOuterTemplate == <<"x"," ","{","{","a","|","{","{","b","|","c","}","}"," ","y">>
UnclosedInputs == {UnclosedTable, UnclosedOuterTable, UnclosedTemplate,
                   UnclosedOuterTemplate}

\* Pages of one or two headings, each of a level up to MaxLevel and followed
\* by a text of its own.  The titles are written as pages write them: plain,
\* with spaces inside the markers, in italics, quoted in capitals, and two
\* titles that are not "History".
SectionTitles == {<<"H", "i", "s", "t", "o", "r", "y">>, <<" ", "h", "i", "s", "t", "o", "r", "y", " ">>, <<SQ, SQ, "H", "i", "s", "t", "o", "r", "y", SQ, SQ>>, <<DQ, "H", "I", "S", "T", "O", "R", "Y", DQ>>,
                  <<"E","a","r","l","y"," ","h","i","s","t","o","r","y">>, <<"O", "v", "e", "r", "v", "i", "e", "w">>}
Headings == [level : 2..MaxLevel, title : SectionTitles]
HeadingSeqs == {<<h>> : h \in Headings} \cup {<<h1, h2>> : h1 \in Headings, h2 \in Headings}
HeadingOf(h) == Equals(h.level) \o h.title \o Equals(h.level)
BodyOf(k) == IF k = 1 THEN <<"o", "n", "e">> ELSE <<"t", "w", "o">>
TitledDoc(hs) ==
    IF Len(hs) = 1 THEN HeadingOf(hs[1]) \o <<NL>> \o BodyOf(1)
    ELSE HeadingOf(hs[1]) \o <<NL>> \o BodyOf(1) \o <<NL>>
         \o HeadingOf(hs[2]) \o <<NL>> \o BodyOf(2)
TitledInputs == {TitledDoc(hs) : hs \in HeadingSeqs}

TextInputs ==
    SectionInputs \cup TemplateInputs \cup TableInputs \cup LinkInputs
    \cup PlainInputs \cup InfoboxInputs \cup HeadingInputs \cup UnclosedInputs
    \cup TitledInputs \cup RefInputs

PipeIdle ==
    /\ lines = <<>> /\ in_page = FALSE /\ buffer = <<>> /\ title = None
    /\ is_redirect = FALSE /\ namespace = None
    /\ pages_rdd = <<>> /\ wiki_df = <<>> /\ wiki_processed_df = <<>>
    /\ stage = "idle" /\ mentions = NoMentions
    /\ dump = <<>> /\ source_df = <<>>

InitText ==
    /\ input \in TextInputs
    /\ arg = <<>>
    /\ op = "none"
    /\ out = None
    /\ prev = <<>>
    /\ fields = <<>>
    /\ PipeIdle
    /\ CrawlIdle

\* out = clean_wikitext(input)
Clean ==
    /\ op = "none"
    /\ out' = Some(clean_wikitext(input))
    /\ op' = "clean"
    /\ UNCHANGED <<input, arg, prev, fields>>
    /\ UNCHANGED <<pipeVars, crawlVars>>

\* out = clean_wikitext(out), the first result kept in prev
CleanAgain ==
    /\ op = "clean"
    /\ prev' = out.val
    /\ out' = Some(clean_wikitext(out.val))
    /\ op' = "clean2"
    /\ UNCHANGED <<input, arg, fields>>
    /\ UNCHANGED <<pipeVars, crawlVars>>

\* out = find_section_block(input, arg)
FindSection ==
    /\ op = "none"
    /\ \E name \in SectionNames :
          /\ arg' = name
          /\ out' = find_section_block(input, name)
    /\ op' = "find"
    /\ UNCHANGED <<input, prev, fields>>
    /\ UNCHANGED <<pipeVars, crawlVars>>

\* out = extract_infobox_block(input); fields = parse_infobox_fields(out)
ParseInfobox ==
    /\ op = "none"
    /\ out' = extract_infobox_block(input)
    /\ fields' = parse_infobox_fields(out'.val)
    /\ op' = "infobox"
    /\ UNCHANGED <<input, arg, prev>>
    /\ UNCHANGED <<pipeVars, crawlVars>>

\* out = normalize_headings(input)
NormalizeHeadings ==
    /\ op = "none"
    /\ out' = Some(normalize_headings(input))
    /\ op' = "headings"
    /\ UNCHANGED <<input, arg, prev, fields>>
    /\ UNCHANGED <<pipeVars, crawlVars>>

\* out = normalize_headings(out), the first result kept in prev
NormalizeHeadingsAgain ==
    /\ op = "headings"
    /\ prev' = out.val
    /\ out' = Some(normalize_headings(out.val))
    /\ op' = "headings2"
    /\ UNCHANGED <<input, arg, fields>>
    /\ UNCHANGED <<pipeVars, crawlVars>>

\* out = extract_infobox_field_clean(input, arg), the input being the text
\* of the page
ExtractField ==
    /\ op = "none"
    /\ \E name \in FieldNames :
          /\ arg' = name
          /\ out' = extract_infobox_field_clean(input, name)
    /\ op' = "field"
    /\ UNCHANGED <<input, prev, fields>>
    /\ UNCHANGED <<pipeVars, crawlVars>>

NextText ==
    \/ Clean
    \/ CleanAgain
    \/ FindSection
    \/ ParseInfobox
    \/ NormalizeHeadings
    \/ NormalizeHeadingsAgain
    \/ ExtractField

SpecText == InitText /\ [][NextText]_vars


(***************************************************************************)
(* SpecScan: the depth-counted scans, one loop iteration per step.  `arg`  *)
(* is the text scanned and `out` holds the locals of the scan: the index i *)
(* (Python's i plus one), depth, and loop, which says whether the next     *)
(* iteration is one of the outer or of the inner while loop, or that the   *)
(* scan is done.  The tests of the while conditions and what follows an    *)
(* inner loop are taken with the iteration that leads to them.  The loop   *)
(* of extract_list_content that finds the end of the template name is      *)
(* taken in one step with the outer iteration it is part of.               *)
(***************************************************************************)
\* The longest text the scans are given, not counting a prefix
MaxScanLen == 4

Locals(i, depth, loop) == [i |-> i, depth |-> depth, loop |-> loop]

\* Back at the test of "while i < len(text)"
OuterTest(s, i) == Locals(i, 0, IF i <= Len(s) THEN "outer" ELSE "done")

\* remove_tables: at the test "while i < len(text) - 1 and depth > 0"
TablesTest(s, i, depth) ==
    IF i < Len(s) /\ depth > 0 THEN Locals(i, depth, "inner") ELSE OuterTest(s, i)

\* One iteration of remove_tables that does not move on at a character that
\* opens or closes nothing.  The properties of the scans must tell it from
\* TablesIteration.
TablesIterationStuck(s, st) ==
    IF st.loop = "outer"
    THEN IF st.i < Len(s) /\ StartsAt(s, st.i, <<"{", "|">>)
         THEN TablesTest(s, st.i + 2, 1)
         ELSE OuterTest(s, st.i + 1)
    ELSE IF StartsAt(s, st.i, <<"{", "|">>) THEN TablesTest(s, st.i + 2, st.depth + 1)
    ELSE IF StartsAt(s, st.i, <<"|", "}">>) THEN TablesTest(s, st.i + 2, st.depth - 1)
    ELSE TablesTest(s, st.i, st.depth)

\* remove_tables: one iteration of the outer or of the inner loop
TablesIteration(s, st) ==
    IF st.loop = "outer"
    THEN IF st.i < Len(s) /\ StartsAt(s, st.i, <<"{", "|">>)
         THEN TablesTest(s, st.i + 2, 1)
         ELSE OuterTest(s, st.i + 1)
    ELSE IF StartsAt(s, st.i, <<"{", "|">>) THEN TablesTest(s, st.i + 2, st.depth + 1)
    ELSE IF StartsAt(s, st.i, <<"|", "}">>) THEN TablesTest(s, st.i + 2, st.depth - 1)
    ELSE TablesTest(s, st.i + 1, st.depth)

\* extract_list_content: at the test of the inner loop
ListTest(s, i, depth) ==
    IF i < Len(s) /\ depth > 0 THEN Locals(i, depth, "inner") ELSE OuterTest(s, i)

\* extract_list_content: the outer iteration at a "{{", whose name ends
\* before template_name_end
ListOpen(s, i, template_name_end) ==
    IF \E template_name \in {Strip(Slice(s, i + 2, template_name_end - 1))} :
          Lower(template_name) \in list_templates
    THEN IF template_name_end <= Len(s) /\ s[template_name_end] = "|"
         THEN ListTest(s, template_name_end + 1, 1)
         ELSE OuterTest(s, template_name_end)
    ELSE OuterTest(s, i + 2)

\* extract_list_content: one iteration of the outer or of the inner loop
ListIteration(s, st) ==
    IF st.loop = "outer"
    THEN IF st.i < Len(s) /\ StartsAt(s, st.i, <<"{", "{">>)
         THEN ListOpen(s, st.i, FindIn(s, st.i + 2, {"|", "}", NL}))
         ELSE OuterTest(s, st.i + 1)
    ELSE IF StartsAt(s, st.i, <<"{", "{">>) THEN ListTest(s, st.i + 2, st.depth + 1)
    ELSE IF StartsAt(s, st.i, <<"}", "}">>)
    THEN IF st.depth - 1 = 0 THEN OuterTest(s, st.i + 2)
         ELSE ListTest(s, st.i + 2, st.depth - 1)
    ELSE ListTest(s, st.i + 1, st.depth)

\* remove_templates: at the test of the inner loop, and "if depth > 0:
\* i += 1" when it fails
TemplatesTest(s, i, depth) ==
    IF i < Len(s) /\ depth > 0 THEN Locals(i, depth, "inner")
    ELSE OuterTest(s, IF depth > 0 THEN i + 1 ELSE i)

\* remove_templates: one iteration of the outer or of the inner loop
TemplatesIteration(s, st) ==
    IF st.loop = "outer"
    THEN IF st.i < Len(s) /\ StartsAt(s, st.i, <<"{", "{">>)
         THEN TemplatesTest(s, st.i + 2, 1)
         ELSE OuterTest(s, st.i + 1)
    ELSE IF StartsAt(s, st.i, <<"{", "{">>) THEN TemplatesTest(s, st.i + 2, st.depth + 1)
    ELSE IF StartsAt(s, st.i, <<"}", "}">>) THEN TemplatesTest(s, st.i + 2, st.depth - 1)
    ELSE TemplatesTest(s, st.i + 1, st.depth)

\* extract_infobox_block: at the test "while i < len(wikitext) - 1"
BlockTest(s, i, depth) == Locals(i, depth, IF i < Len(s) THEN "outer" ELSE "done")

\* extract_infobox_block: the locals before the loop; without "{{Infobox"
\* the function returns at once
BlockStart(s) ==
    IF FindFrom(s, 1, <<"{","{","I","n","f","o","b","o","x">>) = 0
    THEN Locals(1, 0, "done")
    ELSE BlockTest(s, FindFrom(s, 1, <<"{","{","I","n","f","o","b","o","x">>), 0)

\* extract_infobox_block: one iteration of its loop
BlockIteration(s, st) ==
    IF StartsAt(s, st.i, <<"{", "{">>) THEN BlockTest(s, st.i + 2, st.depth + 1)
    ELSE IF StartsAt(s, st.i, <<"}", "}">>)
    THEN IF st.depth - 1 = 0 THEN Locals(st.i + 2, 0, "done")
         ELSE BlockTest(s, st.i + 2, st.depth - 1)
    ELSE BlockTest(s, st.i + 1, st.depth)

\* parse_infobox_fields: the text its loop scans, rest, or nothing when the
\* function returns before the loop
ParamText(infobox_text) ==
    IF infobox_text = <<>>
       \/ FindIn(InfoboxInner(infobox_text), 1, {"|"}) > Len(InfoboxInner(infobox_text))
    THEN <<>>
    ELSE InfoboxRest(InfoboxInner(infobox_text))

\* parse_infobox_fields: at the test "while i < len(rest)"
ParamTest(rest, i, depth) == Locals(i, depth, IF i <= Len(rest) THEN "outer" ELSE "done")

\* parse_infobox_fields: one iteration of its loop
ParamIteration(rest, st) ==
    IF StartsAt(rest, st.i, <<"{", "{">>) THEN ParamTest(rest, st.i + 2, st.depth + 1)
    ELSE IF StartsAt(rest, st.i, <<"}", "}">>) THEN ParamTest(rest, st.i + 2, st.depth - 1)
    ELSE ParamTest(rest, st.i + 1, st.depth)

Scans == {"remove_tables", "extract_list_content", "remove_templates",
          "extract_infobox_block", "parse_infobox_fields"}

\* The text a scan goes over, and its locals before the first iteration
ScanText(scan, text) == IF scan = "parse_infobox_fields" THEN ParamText(text) ELSE text
ScanStart(scan, s) ==
    CASE scan = "extract_infobox_block" -> BlockStart(s)
      [] scan = "parse_infobox_fields" -> ParamTest(s, 1, 0)
      [] OTHER -> OuterTest(s, 1)

\* The texts scanned: every text of the markers and a letter up to
\* MaxScanLen, alone and after the opening of a list template or an infobox
ScanAlphabet == {"{", "|", "}", "a"}
ScanTails == UNION {[1..n -> ScanAlphabet] : n \in 0..MaxScanLen}
ScanPrefixes == {<<>>, <<"{", "{", "h", "l", "i", "s", "t">>, <<"{", "{", "I", "n", "f", "o", "b", "o", "x">>}
ScanInputs == {p \o t : p \in ScanPrefixes, t \in ScanTails}

InitScan ==
    /\ input \in ScanInputs
    /\ arg = <<>>
    /\ op = "none"
    /\ out = Locals(0, 0, "none")
    /\ prev = <<>>
    /\ fields = <<>>
    /\ PipeIdle
    /\ CrawlIdle

\* A scan is called on the input
StartScan ==
    /\ op = "none"
    /\ \E scan \in Scans :
          /\ op' = scan
          /\ arg' = ScanText(scan, input)
          /\ out' = ScanStart(scan, ScanText(scan, input))
    /\ UNCHANGED <<input, prev, fields>>
    /\ UNCHANGED <<pipeVars, crawlVars>>

TablesStep ==
    /\ op = "remove_tables" /\ out.loop # "done"
    /\ out' = TablesIteration(arg, out)
    /\ UNCHANGED <<input, arg, op, prev, fields>>
    /\ UNCHANGED <<pipeVars, crawlVars>>

ListStepScan ==
    /\ op = "extract_list_content" /\ out.loop # "done"
    /\ out' = ListIteration(arg, out)
    /\ UNCHANGED <<input, arg, op, prev, fields>>
    /\ UNCHANGED <<pipeVars, crawlVars>>

TemplatesStep ==
    /\ op = "remove_templates" /\ out.loop # "done"
    /\ out' = TemplatesIteration(arg, out)
    /\ UNCHANGED <<input, arg, op, prev, fields>>
    /\ UNCHANGED <<pipeVars, crawlVars>>

BlockStep ==
    /\ op = "extract_infobox_block" /\ out.loop # "done"
    /\ out' = BlockIteration(arg, out)
    /\ UNCHANGED <<input, arg, op, prev, fields>>
    /\ UNCHANGED <<pipeVars, crawlVars>>

ParamStep ==
    /\ op = "parse_infobox_fields" /\ out.loop # "done"
    /\ out' = ParamIteration(arg, out)
    /\ UNCHANGED <<input, arg, op, prev, fields>>
    /\ UNCHANGED <<pipeVars, crawlVars>>

NextScan ==
    \/ StartScan
    \/ TablesStep
    \/ ListStepScan
    \/ TemplatesStep
    \/ BlockStep
    \/ ParamStep

\* A scan that has not returned goes on with its next iteration
SpecScan == InitScan /\ [][NextScan]_vars /\ WF_vars(NextScan)

(***************************************************************************)
(* SpecEntity: the functions of the entity resolution (normalize_entity,   *)
(* normalize_title_variants, detect_page_type and the fallback of          *)
(* parse_partition) applied to one call.  `input` is the call, a record    *)
(* whose field fn names the function.                                      *)
(***************************************************************************)
EntityTypes == {"artist", "venue", "city", "country"}

\* The values and the countries normalize_entity is called with
EntityValues == {<<"T", "X">>, <<"t", "x">>, <<" ", "t", "x", " ">>, <<"D", "C">>, <<"X", "X">>, <<"U", "S", "A">>, <<"u", "s", "a">>, <<" ", "U", "S", "A">>,
                 <<"A", "u", "s", "t", "i", "n">>, <<" ", "N", "e", "w", " ", " ", "Y", "o", "r", "k", " ">>}
EntityCountries == {<<>>, <<"U", "S", "A">>, <<"u", "s", "a">>, <<"S", "l", "o", "v", "a", "k", "i", "a">>}

NormalizeCalls ==
    {[fn |-> "normalize_entity", value |-> v, type |-> t, country |-> c] :
        v \in EntityValues, t \in EntityTypes, c \in EntityCountries}

\* The titles normalize_title_variants is called with: a base followed by a
\* clarifier in parentheses, and titles that end with none
TitleBases == {<<"S","t","i","c","k","y"," ","F","i","n","g","e","r","s">>, <<"C","h","i","c","a","g","o">>, <<" ","T","h","e"," "," ","W","h","o">>, <<"G","e","n","e","s","i","s"," ","(","a",")">>}
Clarifiers == {<<" ","(","b","a","n","d",")">>, <<"(","b","a","n","d",")">>, <<" ","(","A","m","e","r","i","c","a","n"," ","b","a","n","d",")"," ">>, <<" "," ","(","1","9","7","0"," ","a","l","b","u","m",")">>}
PlainTitles == {<<"S","t","i","c","k","y"," ","F","i","n","g","e","r","s">>, <<"C","h","i","c","a","g","o">>, <<" ","T","h","e"," "," ","W","h","o"," ">>, <<>>,
                <<"C","h","i","c","a","g","o"," ","(","b","a","n","d",")"," ","l","i","v","e">>, <<"(","b","a","n","d",")"," ","C","h","i","c","a","g","o">>, <<"C","h","i","c","a","g","o"," ","(">>,
                <<"C","h","i","c","a","g","o"," ",")">>, <<"C","h","i","c","(","a","g","o">>}

TitleCalls ==
    {[fn |-> "normalize_title_variants", title |-> b \o c, base |-> b,
      qualified |-> TRUE] : b \in TitleBases, c \in Clarifiers}
    \cup {[fn |-> "normalize_title_variants", title |-> t, base |-> t,
           qualified |-> FALSE] : t \in PlainTitles}

\* The signals a page may match, and a page that matches those of `marks`
Signals == {"artist1", "artist2", "artist3", "venue1", "venue2", "venue3",
            "city1", "city2", "city3", "country1", "country2"}
SignalPage(marks) == << [BlankLine EXCEPT !.marks = marks] >>

ClassifyCalls == {[fn |-> "detect_page_type", marks |-> S] : S \in SUBSET Signals}

\* The pages parse_partition decides on: the page "Chicago" with some
\* signals, and "chicago" in the mention sets of the types in `requested`
YieldSignals == {{}, {"city1"}, {"country1"}, {"artist1"}, {"venue1"},
                 {"artist1", "artist2", "city2"}}
MentionsOf(requested) ==
    [t \in EntityTypes |-> IF t \in requested THEN {NameChicago} ELSE {}]

YieldCalls ==
    {[fn |-> "parse_partition", title |-> Chicago, marks |-> S, requested |-> R] :
        S \in YieldSignals, R \in SUBSET EntityTypes}

EntityCalls == NormalizeCalls \cup TitleCalls \cup ClassifyCalls \cup YieldCalls

InitEntity ==
    /\ input \in EntityCalls
    /\ arg = <<>>
    /\ op = "none"
    /\ out = None
    /\ prev = <<>>
    /\ fields = <<>>
    /\ PipeIdle
    /\ CrawlIdle

\* out = normalize_entity(value, type, country)
NormalizeEntity ==
    /\ op = "none"
    /\ input.fn = "normalize_entity"
    /\ out' = Some(normalize_entity(input.value, input.type, input.country))
    /\ op' = "normalize_entity"
    /\ UNCHANGED <<input, arg, prev, fields>>
    /\ UNCHANGED <<pipeVars, crawlVars>>

\* out = normalize_title_variants(title)
TitleVariants ==
    /\ op = "none"
    /\ input.fn = "normalize_title_variants"
    /\ out' = Some(normalize_title_variants(input.title))
    /\ op' = "normalize_title_variants"
    /\ UNCHANGED <<input, arg, prev, fields>>
    /\ UNCHANGED <<pipeVars, crawlVars>>

\* out = detect_page_type(page_text), None for no type
Classify ==
    /\ op = "none"
    /\ input.fn = "detect_page_type"
    /\ out' = IF detect_page_type(SignalPage(input.marks)) = NoType THEN None
              ELSE Some(detect_page_type(SignalPage(input.marks)))
    /\ op' = "detect_page_type"
    /\ UNCHANGED <<input, arg, prev, fields>>
    /\ UNCHANGED <<pipeVars, crawlVars>>

\* out = the rows parse_partition yields for the page at its "</page>"
Yield ==
    /\ op = "none"
    /\ input.fn = "parse_partition"
    /\ out' = Some(YieldOf(input.title, SignalPage(input.marks),
                           MentionsOf(input.requested)))
    /\ op' = "parse_partition"
    /\ UNCHANGED <<input, arg, prev, fields>>
    /\ UNCHANGED <<pipeVars, crawlVars>>

NextEntity ==
    \/ NormalizeEntity
    \/ TitleVariants
    \/ Classify
    \/ Yield

SpecEntity == InitEntity /\ [][NextEntity]_vars

(***************************************************************************)
(* UniqueDeque of src/crawler.py: a deque _dq and the set _set of its      *)
(* items, as the record [dq, set].                                         *)
(***************************************************************************)
\* UniqueDeque() without an iterable
EmptyDeque == [dq |-> <<>>, set |-> {}]

append(d, item) ==
    IF item \notin d.set
    THEN [dq |-> Append(d.dq, item), set |-> d.set \cup {item}]
    ELSE d

\* An appendleft that does not look whether the item is in the deque.  The
\* properties of the deque must tell it from appendleft.
AppendLeftUnchecked(d, item) ==
    [dq |-> <<item>> \o d.dq, set |-> d.set \cup {item}]

appendleft(d, item) ==
    IF item \notin d.set
    THEN [dq |-> <<item>> \o d.dq, set |-> d.set \cup {item}]
    ELSE d

RECURSIVE extend(_, _)
extend(d, iterable) ==
    IF iterable = <<>> THEN d
    ELSE extend(append(d, Head(iterable)), Tail(iterable))

RECURSIVE extendleft(_, _)
extendleft(d, iterable) ==
    IF iterable = <<>> THEN d
    ELSE extendleft(appendleft(d, Head(iterable)), Tail(iterable))

\* popleft of a deque that is not empty; on an empty one deque.popleft raises
\* IndexError before anything is changed
popleft(d) == [dq |-> Tail(d.dq), set |-> d.set \ {Head(d.dq)}]

clear(d) == EmptyDeque

\* UniqueDeque(iterable)
UniqueDeque(iterable) == extend(EmptyDeque, iterable)

(***************************************************************************)
(* The URL functions of src/crawler.py.                                    *)
(***************************************************************************)
\* s.endswith(suffix)
EndsWith(s, suffix) ==
    Len(suffix) <= Len(s) /\ Slice(s, Len(s) - Len(suffix) + 1, Len(s)) = suffix

\* Where the netloc of an absolute URL starts: after "://"
NetlocStart(u) == FindFrom(u, 1, <<":", "/", "/">>) + 3

\* urlparse(url).netloc and urlparse(url).path of an http or https URL
Netloc(u) == Slice(u, NetlocStart(u), FindIn(u, NetlocStart(u), {"/", "?", "#"}) - 1)
UrlPath(u) ==
    Slice(u, FindIn(u, NetlocStart(u), {"/", "?", "#"}),
          FindIn(u, NetlocStart(u), {"?", "#"}) - 1)

\* urldefrag(url)[0].strip()
normalize_url(u) == Strip(Slice(u, 1, FindIn(u, 1, {"#"}) - 1))

same_host(u, root_netloc) == EndsWith(Lower(Netloc(u)), root_netloc)

allowed_by_robots(u, disallows) ==
    \A k \in 1..Len(disallows) : ~StartsAt(UrlPath(u), 1, disallows[k])

HexDigits == Digits \cup {"a", "b", "c", "d", "e", "f", "A", "B", "C", "D", "E", "F"}

\* SETLIST_RE, ^https?://[^/]*setlist\.fm/setlist/[^?#]+-[0-9a-f]{4,}\.html$
\* with re.IGNORECASE: the host ends with "setlist.fm", the path starts with
\* "/setlist/", the URL has no "?" or "#" and ends with ".html", and between
\* the last "-" and ".html" lie four or more hexadecimal digits, with at
\* least one character between "/setlist/" and that "-"
is_setlist_url(u) ==
    /\ \/ StartsAtNoCase(u, 1, <<"h","t","t","p",":","/","/">>)
       \/ StartsAtNoCase(u, 1, <<"h","t","t","p","s",":","/","/">>)
    /\ EndsWith(Lower(Netloc(u)), <<"s","e","t","l","i","s","t",".","f","m">>)
    /\ StartsAtNoCase(u, NetlocStart(u) + Len(Netloc(u)), <<"/","s","e","t","l","i","s","t","/">>)
    /\ \A k \in 1..Len(u) : u[k] \notin {"?", "#"}
    /\ EndsWith(Lower(u), <<".","h","t","m","l">>)
    /\ \E d \in (NetlocStart(u) + Len(Netloc(u)) + 10)..(Len(u) - 9) :
          /\ u[d] = "-"
          /\ \A k \in (d + 1)..(Len(u) - 5) : u[k] \in HexDigits

\* The test of "prioritize links that look relevant"
LooksRelevant(link) ==
    Contains(link, <<"/","s","e","t","l","i","s","t","/">>) \/ Contains(link, <<"/","s","e","t","l","i","s","t","s","/">>)

\* robots_url of load_robots_txt
RobotsUrl(root) ==
    Slice(root, 1, NetlocStart(root) - 1) \o Netloc(root) \o <<"/","r","o","b","o","t","s",".","t","x","t">>

\* domain_suffix of crawl_from_root
DomainSuffix(root) ==
    Slice(Lower(Netloc(root)), 1, FindIn(Lower(Netloc(root)), 1, {":"}) - 1)

(***************************************************************************)
(* SpecCrawl: runs of crawl_from_root, one after the other, each on the    *)
(* state file the run before left.  What the site answers is not known:    *)
(* a GET fails or gives a page with any list of links.                     *)
(***************************************************************************)
\* The longest list of links a page gives, and the number of runs
MaxLinks == 2
MaxRuns == 2
\* The default of --max-pages and of --max-setlists
DefaultMaxPages == 100000
DefaultMaxSetlists == 20000
save_interval == 10

RootUrl == <<"h","t","t","p",":","/","/","s","e","t","l","i","s","t",".","f","m","/","a">>
ListsUrl == <<"h","t","t","p",":","/","/","s","e","t","l","i","s","t",".","f","m","/","s","e","t","l","i","s","t","s","/","b">>
SetlistUrl == <<"h","t","t","p",":","/","/","s","e","t","l","i","s","t",".","f","m","/","s","e","t","l","i","s","t","/","c","-","1","a","2","b",".","h","t","m","l">>
OtherHostUrl == <<"h","t","t","p",":","/","/","o","t","h","e","r",".","o","r","g","/","s","e","t","l","i","s","t","/","x">>

\* The links of the site in the order its pages show them: the robots file
\* and the root are links that do not look relevant
SiteLinks == <<RobotsUrl(RootUrl), ListsUrl, RootUrl, SetlistUrl, OtherHostUrl>>

\* What extract_links may return: lists of different URLs
DistinctLinks ==
    {[k \in 1..Len(pos) |-> SiteLinks[pos[k]]] :
        pos \in {q \in UNION {[1..n -> 1..Len(SiteLinks)] : n \in 0..MaxLinks} :
                    \A a, b \in 1..Len(q) : a < b => q[a] < q[b]}}

\* What load_robots_txt may return
RobotsAnswers == {<<>>, <<<<"/","s","e","t","l","i","s","t","s">>>>}

\* The limits a run may be given
PageLimits == {0, 1, DefaultMaxPages}
SetlistLimits == {0, 1, DefaultMaxSetlists}

\* save_crawler_state's dict, and load_crawler_state's dict when there is no
\* file
SavedState(v, f, s, n) ==
    [visited |-> v, frontier |-> f.dq, found_setlists |-> s, pages_fetched |-> n]
NoState == [visited |-> {}, frontier |-> <<>>, found_setlists |-> {}, pages_fetched |-> 0]

\* The frontier a run starts with
StartFrontier(saved, root) ==
    IF UniqueDeque(saved.frontier).dq = <<>>
    THEN append(UniqueDeque(saved.frontier), normalize_url(root))
    ELSE UniqueDeque(saved.frontier)

InitCrawl ==
    /\ TextIdle
    /\ PipeIdle
    /\ pc = "start"
    /\ root_url = <<>> /\ max_pages = 0 /\ max_setlists = 0
    /\ resume = FALSE /\ robots_disallows = <<>>
    /\ frontier = EmptyDeque
    /\ visited = {} /\ found_setlists = {} /\ pages_fetched = 0
    /\ url = <<>> /\ links = <<>>
    /\ state_file = None
    /\ gets = <<>> /\ runs = 0

CrawlFrame == UNCHANGED <<textVars, pipeVars>>

\* The values of resume a run may be given.  A run told not to resume never
\* reads the state file, so it goes the same way whatever ran before it: it
\* is the first run of the model
ResumeChoices == IF runs = 0 THEN BOOLEAN ELSE {TRUE}

\* crawl_from_root up to its loop
CrawlStart ==
    /\ pc \in {"start", "done"}
    /\ runs < MaxRuns
    /\ runs' = runs + 1
    /\ root_url' = RootUrl
    /\ \E p \in PageLimits, s \in SetlistLimits, r \in ResumeChoices, d \in RobotsAnswers :
          /\ max_pages' = p /\ max_setlists' = s /\ resume' = r
          /\ robots_disallows' = d
          /\ IF r
             THEN /\ visited' = (IF state_file.some THEN state_file.val ELSE NoState).visited
                  /\ frontier' = StartFrontier(IF state_file.some THEN state_file.val ELSE NoState, RootUrl)
                  /\ found_setlists' = (IF state_file.some THEN state_file.val ELSE NoState).found_setlists
                  /\ pages_fetched' = (IF state_file.some THEN state_file.val ELSE NoState).pages_fetched
             ELSE /\ visited' = {}
                  /\ frontier' = UniqueDeque(<<normalize_url(RootUrl)>>)
                  /\ found_setlists' = {}
                  /\ pages_fetched' = 0
    /\ gets' = <<RobotsUrl(RootUrl)>>
    /\ url' = <<>> /\ links' = <<>>
    /\ pc' = "loop"
    /\ UNCHANGED state_file
    /\ CrawlFrame

\* The loop as it would go on while the frontier is not empty, whatever the
\* limits.  The properties of the limits must tell it from WhileCondition.
WhileFrontier == frontier.dq # <<>>

\* while frontier and pages_fetched < max_pages and len(found_setlists) < max_setlists
WhileCondition ==
    /\ frontier.dq # <<>>
    /\ pages_fetched < max_pages
    /\ Cardinality(found_setlists) < max_setlists

\* The head of an iteration: popleft, the visited test, the host and robots
\* tests
PopUrl ==
    /\ pc = "loop"
    /\ WhileCondition
    /\ url' = Head(frontier.dq)
    /\ frontier' = popleft(frontier)
    /\ IF Head(frontier.dq) \in visited
       THEN /\ pc' = "loop"
            /\ UNCHANGED visited
       ELSE /\ visited' = visited \cup {Head(frontier.dq)}
            /\ pc' = IF /\ same_host(Head(frontier.dq), DomainSuffix(root_url))
                        /\ allowed_by_robots(Head(frontier.dq), robots_disallows)
                     THEN "get" ELSE "loop"
    /\ UNCHANGED <<root_url, max_pages, max_setlists, resume, robots_disallows,
                   found_setlists, pages_fetched, links, state_file, gets, runs>>
    /\ CrawlFrame

\* requests.get(url): a status of 400 or more or an exception, or a page
Get ==
    /\ pc = "get"
    /\ gets' = Append(gets, url)
    /\ \/ /\ pc' = "loop"
          /\ UNCHANGED <<pages_fetched, links>>
       \/ /\ pages_fetched' = pages_fetched + 1
          /\ links' \in DistinctLinks
          /\ pc' = "record"
    /\ UNCHANGED <<root_url, max_pages, max_setlists, resume, robots_disallows,
                   frontier, visited, found_setlists, url, state_file, runs>>
    /\ CrawlFrame

\* "If it's a setlist URL, record it", and the break at the limit
Record ==
    /\ pc = "record"
    /\ found_setlists' = IF is_setlist_url(url) THEN found_setlists \cup {url}
                         ELSE found_setlists
    /\ pc' = IF is_setlist_url(url) /\ Cardinality(found_setlists \cup {url}) >= max_setlists
             THEN "final" ELSE "enqueue"
    /\ UNCHANGED <<root_url, max_pages, max_setlists, resume, robots_disallows,
                   frontier, visited, pages_fetched, url, links, state_file, gets, runs>>
    /\ CrawlFrame

\* A link that is kept though it has been visited.  The properties of the
\* visited set must tell it from Wanted.
WantedThoughVisited(link) ==
    /\ same_host(link, DomainSuffix(root_url))
    /\ allowed_by_robots(link, robots_disallows)

\* The three tests a link has to pass to be enqueued
Wanted(link) ==
    /\ same_host(link, DomainSuffix(root_url))
    /\ link \notin visited
    /\ allowed_by_robots(link, robots_disallows)

\* The frontier with the relevant links put at its end like the others.  The
\* property of the order must tell it from Enqueued.
EnqueuedAtBack(d, prioritized, rest) == extend(extend(d, prioritized), rest)

\* frontier after "for item in prioritized: frontier.appendleft(item)" and
\* "for item in rest: frontier.append(item)"
Enqueued(d, prioritized, rest) == extend(extendleft(d, prioritized), rest)

\* The links of the page are sorted and enqueued, and the state is saved
\* every save_interval pages
Enqueue ==
    /\ pc = "enqueue"
    /\ frontier' = Enqueued(frontier,
                            SelectSeq(links, LAMBDA l : Wanted(l) /\ LooksRelevant(l)),
                            SelectSeq(links, LAMBDA l : Wanted(l) /\ ~LooksRelevant(l)))
    /\ state_file' = IF pages_fetched % save_interval = 0
                     THEN Some(SavedState(visited, frontier', found_setlists, pages_fetched))
                     ELSE state_file
    /\ pc' = "loop"
    /\ UNCHANGED <<root_url, max_pages, max_setlists, resume, robots_disallows,
                   visited, found_setlists, pages_fetched, url, links, gets, runs>>
    /\ CrawlFrame

\* The loop is left, by its condition or by the break, and the state is saved
Finish ==
    /\ \/ pc = "loop" /\ ~WhileCondition
       \/ pc = "final"
    /\ state_file' = Some(SavedState(visited, frontier, found_setlists, pages_fetched))
    /\ pc' = "done"
    /\ UNCHANGED <<root_url, max_pages, max_setlists, resume, robots_disallows,
                   frontier, visited, found_setlists, pages_fetched, url, links,
                   gets, runs>>
    /\ CrawlFrame

NextCrawl ==
    \/ CrawlStart
    \/ PopUrl
    \/ Get
    \/ Record
    \/ Enqueue
    \/ Finish

SpecCrawl == InitCrawl /\ [][NextCrawl]_vars

(***************************************************************************)
(* SpecDeque: the methods of one UniqueDeque called in any order.  pc is   *)
(* the method called last, url the item and links the iterable it was      *)
(* given.                                                                  *)
(***************************************************************************)
\* The number of different items the deque is given
MaxItems == 3

DequeItems == 1..MaxItems
Iterables == {<<>>} \cup {<<a>> : a \in DequeItems}
             \cup {<<a, b>> : a \in DequeItems, b \in DequeItems}

InitDeque ==
    /\ TextIdle
    /\ PipeIdle
    /\ pc = "UniqueDeque"
    /\ links \in Iterables
    /\ frontier = UniqueDeque(links)
    /\ url = 0
    /\ root_url = <<>> /\ max_pages = 0 /\ max_setlists = 0
    /\ resume = FALSE /\ robots_disallows = <<>>
    /\ visited = {} /\ found_setlists = {} /\ pages_fetched = 0
    /\ state_file = None
    /\ gets = <<>> /\ runs = 0

DequeFrame ==
    /\ UNCHANGED <<root_url, max_pages, max_setlists, resume, robots_disallows,
                   visited, found_setlists, pages_fetched, state_file, gets, runs>>
    /\ UNCHANGED <<textVars, pipeVars>>

DequeAppend ==
    /\ \E item \in DequeItems :
          /\ frontier' = append(frontier, item)
          /\ url' = item
    /\ pc' = "append"
    /\ UNCHANGED links
    /\ DequeFrame

DequeAppendLeft ==
    /\ \E item \in DequeItems :
          /\ frontier' = appendleft(frontier, item)
          /\ url' = item
    /\ pc' = "appendleft"
    /\ UNCHANGED links
    /\ DequeFrame

DequeExtend ==
    /\ \E iterable \in Iterables :
          /\ frontier' = extend(frontier, iterable)
          /\ links' = iterable
    /\ pc' = "extend"
    /\ UNCHANGED url
    /\ DequeFrame

DequeExtendLeft ==
    /\ \E iterable \in Iterables :
          /\ frontier' = extendleft(frontier, iterable)
          /\ links' = iterable
    /\ pc' = "extendleft"
    /\ UNCHANGED url
    /\ DequeFrame

DequePopLeft ==
    /\ frontier.dq # <<>>
    /\ frontier' = popleft(frontier)
    /\ url' = Head(frontier.dq)
    /\ pc' = "popleft"
    /\ UNCHANGED links
    /\ DequeFrame

DequeClear ==
    /\ frontier' = clear(frontier)
    /\ pc' = "clear"
    /\ UNCHANGED <<url, links>>
    /\ DequeFrame

NextDeque ==
    \/ DequeAppend
    \/ DequeAppendLeft
    \/ DequeExtend
    \/ DequeExtendLeft
    \/ DequePopLeft
    \/ DequeClear

SpecDeque == InitDeque /\ [][NextDeque]_vars

(***************************************************************************)
(* Properties of the text functions, checked under SpecText.               *)
(***************************************************************************)
\* The section A of HeadingDoc(l): up to B's heading when B is as high as A,
\* and with B's heading and text inside otherwise
SectionA(l) ==
    IF l <= 2 THEN <<"t","e","x","t","1">>
    ELSE <<"t","e","x","t","1",NL>> \o Equals(l) \o <<"B">> \o Equals(l) \o <<NL,"t","e","x","t","2">>

\* C1: find_section_block returns the text after the first heading that
\* matches, up to the next heading of the same or a higher level (or the end
\* of the text), so that a deeper subsection stays inside its parent: for
\* "==A==\ntext1\n===B===\ntext2\n==C==\ntext3" and "A" it returns
\* "text1\n===B===\ntext2".
C1_SectionEndsAtNextHeadingOfItsLevel ==
    \A l \in 2..MaxLevel :
        (op = "find" /\ input = HeadingDoc(l) /\ arg = <<"A">>)
            => out = Some(SectionA(l))

\* C6: cleaning "x {{a|{{b|c}}|d}} y", or the same text with the template
\* nested deeper, removes the whole template as one unit and leaves the text
\* around it; the two spaces that were around the template become one, so
\* the result is "x y".
C6_NestedTemplateRemovedAsOneUnit ==
    (op = "clean" /\ input \in TemplateInputs) => out = Some(<<"x"," ","y">>)

\* C6, witness: the text of the example has been cleaned
C6_ExampleCleaned ==
    op = "clean" /\ input = <<"x"," ","{","{","a","|","{","{","b","|","c","}","}","|","d","}","}"," ","y">> /\ out = Some(<<"x"," ","y">>)

\* C6 as stated: cleaning "x {{a|{{b|c}}|d}} y" yields "x  y", with both of
\* the spaces
C6_ExampleKeepsBothSpaces ==
    (op = "clean" /\ input = <<"x"," ","{","{","a","|","{","{","b","|","c","}","}","|","d","}","}"," ","y">>) => out = Some(<<"x"," "," ","y">>)

\* C7: cleaning removes a table together with every table nested in it, "{|"
\* balanced against "|}" by depth: "before{|\nrow{|\ninner|}\n|}after", or
\* the same text with the table nested deeper, becomes "beforeafter".
C7_NestedTableRemoved ==
    (op = "clean" /\ input \in TableInputs) => out = Some(<<"b","e","f","o","r","e","a","f","t","e","r">>)

\* C7, witness: the text of the example has been cleaned
C7_ExampleCleaned ==
    /\ op = "clean"
    /\ input = <<"b","e","f","o","r","e","{","|",NL,"r","o","w","{","|",NL,"i","n","n","e","r","|","}",NL,"|","}","a","f","t","e","r">>
    /\ out = Some(<<"b","e","f","o","r","e","a","f","t","e","r">>)

\* The target of a link without what leads up to its first ":"
AfterNamespace(target) ==
    Slice(target, First({k \in 1..Len(target) : target[k] = ":"}, 0) + 1, Len(target))

\* C8: clean rewrites [[target|label]] to exactly the label and [[target]] to
\* the target without its leading "namespace:", for every link.
C8_LinkBecomesItsLabel ==
    op = "clean" =>
        /\ \A t \in LinkTargets, l \in LinkLabels :
              input = PipedLink(t, l) => out = Some(l)
        /\ \A t \in LinkTargets :
              input = BareLink(t) => out = Some(AfterNamespace(t))

\* C9: clean(clean(x)) = clean(x) for every text x without markup.
C9_CleanIsIdempotentOnPlainText ==
    (op = "clean2" /\ input \in PlainInputs) => out = Some(prev)


\* C27: the prose between a self-closing <ref .../> tag and a later
\* <ref>...</ref> block is still in the text that clean returns.
C27_ProseBetweenRefsKept ==
    op = "clean" =>
        \A prose \in RefProses :
            input = RefDoc(prose) => Contains(out.val, Strip(prose))

\* The dict parse_infobox_fields returns, as a set of <<key, value>>
FieldSet(d) == {d[k] : k \in 1..Len(d)}

\* C10: the infobox parameters are split only at the pipes outside nested
\* templates, each at its first "=", and a parameter without "=" is dropped:
\* "{{Infobox band|name=Foo|genre=Rock|origin=USA}}" gives exactly name, genre
\* and origin, and no pipe inside a nested template starts a parameter.
C10_InfoboxSplitsAtTopLevelPipes ==
    op = "infobox" =>
        /\ input = InfoboxBand =>
              FieldSet(fields) = { <<<<"n","a","m","e">>, <<"F","o","o">>>>, <<<<"g","e","n","r","e">>, <<"R","o","c","k">>>>,
                                   <<<<"o","r","i","g","i","n">>, <<"U","S","A">>>> }
        /\ input = InfoboxNestedValue =>
              FieldSet(fields) = { <<<<"g","e","n","r","e">>, <<"{","{","h","l","i","s","t","|","R","o","c","k","|","P","o","p","}","}">>>>,
                                   <<<<"o","r","i","g","i","n">>, <<"U","S","A">>>> }
        /\ input = InfoboxBarePart =>
              FieldSet(fields) = { <<<<"n","a","m","e">>, <<"a","=","b">>>> }
        /\ input = InfoboxNestedName =>
              FieldSet(fields) = { <<<<"d">>, <<"e">>>> }

\* C15: normalize_headings is idempotent: applied to its own output, it
\* changes nothing, whatever the text.
C15_NormalizeHeadingsIdempotent ==
    op = "headings2" => out = Some(prev)

\* C16: when a parameter key occurs more than once in the infobox, the value
\* stored and returned for the key is the one of its first occurrence.
C16_FirstOccurrenceOfKeyWins ==
    /\ (op = "infobox" /\ input = InfoboxTwice) =>
          FieldSet(fields) = { <<<<"g", "e", "n", "r", "e">>, <<"R", "o", "c", "k">>>>, <<<<"o", "r", "i", "g", "i", "n">>, <<"U", "S", "A">>>> }
    /\ (op = "field" /\ input = InfoboxTwice /\ arg = <<"g", "e", "n", "r", "e">>) =>
          out = Some(<<"R", "o", "c", "k">>)

\* C18: when a table "{|" or a template "{{" is never closed, clean_wikitext
\* consumes every character from the opening marker to the end of the text:
\* none of them is in the result.
C18_UnclosedMarkupConsumedToTheEnd ==
    op = "clean" =>
        /\ input \in {UnclosedTable, UnclosedOuterTable} => out = Some(<<"b", "e", "f", "o", "r", "e">>)
        /\ input \in {UnclosedTemplate, UnclosedOuterTemplate} => out = Some(<<"x">>)

\* A heading's title as the claim compares it: trimmed, without surrounding
\* quote characters, in lower case
TitleKey(heading_title) == Lower(StripChars(Strip(heading_title), {SP, SQ, DQ}))

\* The headings of hs whose title equals the requested name
MatchingHeadings(hs, name) == {k \in 1..Len(hs) : TitleKey(hs[k].title) = Lower(name)}

\* The result is the section of the k-th heading of hs: it holds the text
\* under that heading and the text of no heading before it, and it is exactly
\* that text when every heading is of level 2
IsSectionOf(result, hs, k) ==
    /\ result.some
    /\ Contains(result.val, BodyOf(k))
    /\ \A j \in 1..(k - 1) : ~Contains(result.val, BodyOf(j))
    /\ (\A j \in 1..Len(hs) : hs[j].level = 2) => result.val = BodyOf(k)

\* C20: find_section_block returns None exactly when no heading's title,
\* trimmed, stripped of surrounding quote characters and compared without
\* regard to case, equals the requested name; when several headings match it
\* returns the section of the earliest of them.
C20_AbsentIffNoHeadingMatches ==
    \A hs \in HeadingSeqs :
        (op = "find" /\ input = TitledDoc(hs)) =>
            /\ (out = None) <=> (MatchingHeadings(hs, arg) = {})
            /\ MatchingHeadings(hs, arg) # {} =>
                  IsSectionOf(out, hs, First(MatchingHeadings(hs, arg), 0))

\* C20, witness: of two headings that both read history, one with spaces and
\* one in italics, the section of the first has been returned
C20_EarliestOfTwoReturned ==
    /\ op = "find"
    /\ input = <<"=","="," ","h","i","s","t","o","r","y"," ","=","=",NL,"o","n","e",NL,"=","=",SQ,SQ,"H","i","s","t","o","r","y",SQ,SQ,"=","=",NL,"t","w","o">>
    /\ arg = <<"H","i","s","t","o","r","y">>
    /\ out = Some(<<"o","n","e">>)

(***************************************************************************)
(* Properties of the pipeline, checked under Spec.                         *)
(***************************************************************************)
\* The records that have reached the output of the engine
Output == IF stage = "done" THEN wiki_processed_df ELSE <<>>

\* The last of the title's variants
LastVariant(t) == normalize_title_variants(t)[Len(normalize_title_variants(t))]

\* C2: the record emitted for an accepted page has the last variant of its
\* title as title_norm: "Sticky Fingers (band)" is emitted as an artist with
\* title_norm "sticky fingers".
C2_TitleNormIsLastVariant ==
    \A k \in 1..Len(Output) :
        Output[k].title_norm = LastVariant(Output[k].title)

\* The categories whose mention set holds one of the title's variants
RequestedCategories(t) ==
    {c \in {"country", "city", "artist", "venue"} :
        \E k \in 1..Len(normalize_title_variants(t)) :
            normalize_title_variants(t)[k] \in mentions[c]}

\* A row of the dump's pages was emitted with a type that is requested for
\* its title, and with the type detected from its text when one was detected
EmittedAsRequested(row) ==
    /\ row.entity_type \in RequestedCategories(row.title)
    /\ detect_page_type(row.page_text) # NoType
          => row.entity_type = detect_page_type(row.page_text)

\* C3: a page is emitted only if its detected type is one of the types
\* requested for its title; a page "Chicago" detected as a city is not
\* emitted when only the artist mentions hold "chicago".
C3_EmittedOnlyIfDetectedTypeRequested ==
    /\ \A k \in 1..Len(pages_rdd) : EmittedAsRequested(pages_rdd[k])
    /\ \A k \in 1..Len(Output) :
          Output[k].entity_type \in RequestedCategories(Output[k].title)
    /\ NameChicago \notin mentions.city =>
          /\ \A k \in 1..Len(pages_rdd) :
                ~(pages_rdd[k].title = Chicago /\ pages_rdd[k].entity_type = "city")
          /\ \A k \in 1..Len(Output) :
                ~(Output[k].title = Chicago /\ Output[k].entity_type = "city")

\* C3, witness: with "chicago" among the artist mentions only, the city page
\* "Chicago" of the dump was rejected and the band's page was emitted
C3_CityRejectedArtistEmitted ==
    /\ stage = "done"
    /\ NameChicago \in mentions.artist /\ NameChicago \notin mentions.city
    /\ dump = PageLines(Page(Chicago, 0, FALSE, {"city2"}, ChicagoText))
              \o PageLines(Page(ChicagoBand, 0, FALSE, {"artist1", "artist2"}, <<>>))
    /\ Len(wiki_processed_df) = 1
    /\ wiki_processed_df[1].title = ChicagoBand
    /\ wiki_processed_df[1].entity_type = "artist"

\* The lines of `page` lie in the dump, one after the other
InDump(page) ==
    \E i \in 1..Len(dump) :
        i + Len(page) - 1 <= Len(dump) /\ SubSeq(dump, i, i + Len(page) - 1) = page

\* What the dump says of a page: its namespace, and whether it redirects
NamespaceIsZero(page) ==
    /\ \E k \in 1..Len(page) : page[k].ns = Some(0)
    /\ \A k \in 1..Len(page) : page[k].ns.some => page[k].ns.val = 0
Redirects(page) == \E k \in 1..Len(page) : page[k].redirect

\* C4: no record reaches the output for a page whose namespace is not 0, that
\* redirects, whose title holds "(disambiguation)" in any case, or whose text
\* in lowercase holds "may refer to" or "{{disambiguation".
C4_NoRecordForRejectedPage ==
    /\ Len(Output) > 0 => Len(source_df) = Len(Output)
    /\ \A k \in 1..Len(Output) :
          /\ Output[k].title = source_df[k].title
          /\ InDump(source_df[k].page_text)
          /\ NamespaceIsZero(source_df[k].page_text)
          /\ ~Redirects(source_df[k].page_text)
          /\ ~Contains(Lower(Output[k].title), Disambiguation)
          /\ ~Marked(source_df[k].page_text, "may refer to")
          /\ ~Marked(source_df[k].page_text, "{{disambiguation")

\* C4, witness: the dump held a disambiguation page that parse_partition
\* accepted, and a city page; the output holds the city page's record alone
C4_DisambiguationPageDropped ==
    /\ stage = "done"
    /\ dump = PageLines(Page(Chicago, 0, FALSE, {"{{disambiguation", "city1"}, <<>>))
              \o PageLines(Page(StickyFingersBand, 0, FALSE, {"artist1"}, <<>>))
    /\ Len(pages_rdd) = 2
    /\ Len(wiki_processed_df) = 1
    /\ wiki_processed_df[1].title = StickyFingersBand

\* C5: at most one record for each (entity_type, title_norm) reaches the
\* output, whatever the pages of the dump.
C5_OneRecordPerTypeAndTitle ==
    \A j, k \in 1..Len(Output) :
        (Output[j].entity_type = Output[k].entity_type
         /\ Output[j].title_norm = Output[k].title_norm) => j = k

\* C5, witness: two pages of the dump were emitted under one title and type,
\* and one record is in the output
C5_DuplicatesCollapsed ==
    /\ stage = "done"
    /\ Len(pages_rdd) = 2
    /\ pages_rdd[1].title_norm = pages_rdd[2].title_norm
    /\ pages_rdd[1].entity_type = pages_rdd[2].entity_type
    /\ Len(wiki_processed_df) = 1


\* A row of the matched pages that process_wiki_page does not turn into an
\* "unknown" record
AcceptedRow(row) ==
    /\ ~Marked(row.page_text, "may refer to")
    /\ ~Marked(row.page_text, "{{disambiguation")
    /\ ~Marked(row.page_text, "#redirect")

\* C25: an accepted page is missing from the output only when the output
\* holds a page of the same entity type and title_norm, so that a city page
\* "Chicago" and an artist page "Chicago (band)" are both in the output.
C25_TypesWithOneTitleBothKept ==
    stage = "done" =>
        \A j \in 1..Len(pages_rdd) :
            AcceptedRow(pages_rdd[j]) =>
                \E k \in 1..Len(source_df) :
                    /\ source_df[k].entity_type = pages_rdd[j].entity_type
                    /\ source_df[k].title_norm = pages_rdd[j].title_norm

\* C26: no accepted page is missing from the output because a page with
\* "may refer to" or "{{disambiguation" in its text was kept in its place,
\* whatever rows the deduplications keep.
C26_DisambiguationPageShadowsNone ==
    stage = "done" =>
        \A j \in 1..Len(pages_rdd), d \in 1..Len(wiki_df) :
            (/\ AcceptedRow(pages_rdd[j])
             /\ \/ Marked(wiki_df[d].page_text, "may refer to")
                \/ Marked(wiki_df[d].page_text, "{{disambiguation")
             /\ wiki_df[d].title_norm = pages_rdd[j].title_norm)
            => \E k \in 1..Len(source_df) :
                  source_df[k].title_norm = pages_rdd[j].title_norm

\* The keys of a dict kept as a sequence of <<key, value>>
Keys(d) == {d[k][1] : k \in 1..Len(d)}

\* The infobox fields and the section keys configured for each type
ConfiguredFields(t) ==
    CASE t = "artist" -> {"current_members", "years_active", "genre", "origin",
                          "birth_name", "website"}
      [] t = "venue" -> {"capacity", "location", "opened"}
      [] t = "city" -> {"area", "population"}
      [] t = "country" -> {"capital", "population", "area"}
      [] OTHER -> {}
ConfiguredSections(t) ==
    CASE t = "artist" -> {"artist_bio", "discography"}
      [] t = "venue" -> {"venue_bio"}
      [] t = "city" -> {"city_bio"}
      [] t = "country" -> {"country_bio"}
      [] OTHER -> {}

\* C17: for every emitted page of type T the infobox keys are among the
\* fields configured for T and the section keys among T's section keys; a
\* section or field that is not found, or that is empty once cleaned, has no
\* key, and never an empty value.
C17_OnlyConfiguredNonemptyKeys ==
    \A k \in 1..Len(wiki_processed_df) :
        /\ Keys(wiki_processed_df[k].infobox_fields)
              \subseteq ConfiguredFields(wiki_processed_df[k].entity_type)
        /\ Keys(wiki_processed_df[k].sections)
              \subseteq ConfiguredSections(wiki_processed_df[k].entity_type)
        /\ \A j \in 1..Len(wiki_processed_df[k].infobox_fields) :
              wiki_processed_df[k].infobox_fields[j][2] # <<>>
        /\ \A j \in 1..Len(wiki_processed_df[k].sections) :
              wiki_processed_df[k].sections[j][2] # <<>>

\* C17, witness: the page whose infobox values and History section are
\* markup alone was emitted with its Overview as city_bio and no other key
C17_EmptyValuesOmitted ==
    /\ stage = "done"
    /\ dump = PageLines(Page(Chicago, 0, FALSE, {"city2"}, ChicagoSparse))
    /\ Len(wiki_processed_df) = 1
    /\ wiki_processed_df[1].sections = << <<"city_bio", <<"B", "i", "g">>>> >>
    /\ wiki_processed_df[1].infobox_fields = <<>>

\* The place in the dump of the line that parse_partition reads next
LinePos == Len(dump) - Len(lines) + 1

\* The last "<page>" line before the line at pos, or 0
PageStart(pos) ==
    IF \E k \in 1..(pos - 1) : dump[k].page
    THEN CHOOSE k \in 1..(pos - 1) :
            dump[k].page /\ \A j \in (k + 1)..(pos - 1) : ~dump[j].page
    ELSE 0

\* The lines of the page that the "</page>" line at pos closes, from its
\* "<page>" line on, or none when no page is open there
OwnPage(pos) ==
    IF PageStart(pos) > 0 /\ \A j \in PageStart(pos)..(pos - 1) : ~dump[j].endpage
    THEN SubSeq(dump, PageStart(pos), pos)
    ELSE <<>>

\* What the lines of one page say: the last title and namespace among them,
\* and whether one of them redirects
OwnTitle(page) ==
    IF \E k \in 1..Len(page) : page[k].title.some
    THEN page[CHOOSE k \in 1..Len(page) :
                 page[k].title.some /\ \A j \in (k + 1)..Len(page) : ~page[j].title.some].title
    ELSE None
OwnNamespace(page) ==
    IF \E k \in 1..Len(page) : page[k].ns.some
    THEN page[CHOOSE k \in 1..Len(page) :
                 page[k].ns.some /\ \A j \in (k + 1)..Len(page) : ~page[j].ns.some].ns
    ELSE None

\* The rows a page gives when it is read alone with the mention sets m
RowsOfPage(page, m) ==
    IF /\ page # <<>>
       /\ OwnTitle(page).some /\ OwnTitle(page).val # <<>>
       /\ ~Redirects(page)
       /\ OwnNamespace(page) = Some(0)
       /\ ~Contains(Lower(OwnTitle(page).val), Disambiguation)
    THEN YieldOf(OwnTitle(page).val, page, m)
    ELSE <<>>

\* Reading one line adds the rows of the page that the line closes, judged
\* by the lines of that page alone, adds nothing at any other line, and
\* leaves the mention sets as they are
PageJudgedAlone ==
    (lines # <<>> /\ lines' = Tail(lines)) =>
        /\ mentions' = mentions
        /\ pages_rdd' = pages_rdd \o
              (IF Head(lines).endpage THEN RowsOfPage(OwnPage(LinePos), mentions)
               ELSE <<>>)

\* C21: whether a page is accepted, and the record made of it, depend on the
\* lines of that page and on the mention sets alone, whatever was read before
\* it in the partition: no title, redirect flag, namespace or buffered line is
\* carried from one page to the next, and the mention sets are never changed.
C21_PageJudgedByItsOwnLines == [][PageJudgedAlone]_vars

\* C21, witness: a city page that came after a redirect page cut off before
\* its end was accepted, with its own lines as its text
C21_AcceptedAfterCutPage ==
    /\ dump = CutPage \o PageLines(Page(Chicago, 0, FALSE, {"city2"}, ChicagoText))
    /\ lines = <<>>
    /\ Len(pages_rdd) = 1
    /\ pages_rdd[1].title = Chicago
    /\ pages_rdd[1].page_text = PageLines(Page(Chicago, 0, FALSE, {"city2"}, ChicagoText))

(***************************************************************************)
(* Properties of the entity resolution, checked under SpecEntity.          *)
(***************************************************************************)
\* The value a mention is normalised to when neither special case applies
PlainMention(value) == normalize_title(value)

\* What the mention normalisation returns when a state code is recognised in
\* `code`, the form of the value that is looked up
MentionFor(value, type, country, code) ==
    IF type = "country" /\ Upper(value) = USA THEN <<"u","n","i","t","e","d"," ","s","t","a","t","e","s">>
    ELSE IF type = "city" /\ Upper(country) = USA /\ IsStateCode(code)
    THEN PlainMention(StateName(code))
    ELSE PlainMention(value)

\* C11: normalize_entity returns the lowercased, trimmed value with its
\* whitespace collapsed, except that a country "USA" in any case becomes
\* "united states", and that a city whose context country is "USA" and whose
\* value, trimmed and uppercased, is a two-letter state code becomes the
\* state's normalised name; ("TX", city, "USA") gives "texas".
C11_MentionNormalised ==
    op = "normalize_entity" =>
        /\ out = Some(MentionFor(input.value, input.type, input.country,
                                 Upper(Strip(input.value))))
        /\ (input.value = <<"T", "X">> /\ input.type = "city" /\ input.country = USA)
              => out = Some(<<"t", "e", "x", "a", "s">>)

\* C11, witness: the call of the example has returned
C11_TexasReturned ==
    /\ op = "normalize_entity"
    /\ input.value = <<"T", "X">> /\ input.type = "city" /\ input.country = USA
    /\ out = Some(<<"t", "e", "x", "a", "s">>)

\* C11 as stated: the state code is recognised in the value uppercased, with
\* the whitespace around it still there
C11_StateCodeInUppercasedValue ==
    op = "normalize_entity" =>
        out = Some(MentionFor(input.value, input.type, input.country,
                              Upper(input.value)))

\* C12: normalize_title_variants always has the full normalised title first,
\* and has one more, last element, the normalised title without its trailing
\* clarifier, exactly when the title ends with a clarifier "(...)" and that
\* form differs from the full one; the last element is the join key.
C12_VariantsAreFullThenBase ==
    op = "normalize_title_variants" =>
        /\ out.val[1] = normalize_title(input.title)
        /\ input.qualified =>
              out.val = <<normalize_title(input.title), normalize_title(input.base)>>
        /\ ~input.qualified => out.val = <<normalize_title(input.title)>>
        /\ input.title = <<"S","t","i","c","k","y"," ","F","i","n","g","e","r","s"," ","(","b","a","n","d",")">> =>
              out.val = <<<<"s","t","i","c","k","y"," ","f","i","n","g","e","r","s"," ","(","b","a","n","d",")">>, <<"s","t","i","c","k","y"," ","f","i","n","g","e","r","s">>>>

\* C12, witness: a title with a clarifier has been given its two variants
C12_ClarifierDropped ==
    /\ op = "normalize_title_variants"
    /\ input.title = <<"S","t","i","c","k","y"," ","F","i","n","g","e","r","s"," ","(","b","a","n","d",")">>
    /\ Len(out.val) = 2
    /\ out.val[2] = <<"s","t","i","c","k","y"," ","f","i","n","g","e","r","s">>


\* C29: the key an event is joined on for its artist, venue, city or
\* country equals the mention normalize_entity put into the mention set for
\* that value and the event's country.
C29_JoinKeyIsTheMention ==
    op = "normalize_entity" =>
        out = Some(JoinKey(input.value, input.type, input.country))

\* The signals of each type, and the number of them among `marks`
SignalsOf(t) ==
    CASE t = "artist" -> {"artist1", "artist2", "artist3"}
      [] t = "venue" -> {"venue1", "venue2", "venue3"}
      [] t = "city" -> {"city1", "city2", "city3"}
      [] t = "country" -> {"country1", "country2"}
SignalScore(t, marks) == Cardinality(marks \cap SignalsOf(t))

\* C13: detect_page_type returns the type whose score, the number of its
\* signals that match the page, is strictly the greatest, and no type when
\* the greatest score is zero.
C13_StrictlyGreatestScoreWins ==
    op = "detect_page_type" =>
        /\ \A t \in EntityTypes :
              (\A u \in EntityTypes \ {t} :
                    SignalScore(u, input.marks) < SignalScore(t, input.marks))
                 => out = Some(t)
        /\ (\A t \in EntityTypes : SignalScore(t, input.marks) = 0) <=> out = None
        /\ out.some =>
              \A u \in EntityTypes :
                  SignalScore(u, input.marks) <= SignalScore(out.val, input.marks)

\* C13, witness: a page with two city signals and one artist signal has been
\* classified as a city
C13_CityOutscoresArtist ==
    /\ op = "detect_page_type"
    /\ input.marks = {"city1", "city2", "artist1"}
    /\ out = Some("city")


\* The types with the greatest score among `marks`, when it is not zero
TiedTypes(marks) ==
    {t \in EntityTypes :
        /\ SignalScore(t, marks) > 0
        /\ \A u \in EntityTypes : SignalScore(u, marks) <= SignalScore(t, marks)}

\* The order in which ties are resolved
TieOrder == <<"country", "city", "venue", "artist">>

\* C28: when several types share the greatest score and it is not zero,
\* detect_page_type returns the one of them that comes first in the order
\* country, city, venue, artist; the result depends on the page alone.
C28_TieGoesToFirstInOrder ==
    op = "detect_page_type" =>
        \A k \in 1..4 :
            (/\ TieOrder[k] \in TiedTypes(input.marks)
             /\ \A j \in 1..(k - 1) : TieOrder[j] \notin TiedTypes(input.marks))
            => out = Some(TieOrder[k])

\* A page with one signal each of artist, venue and city has been classified
\* as a city.
C28_ThreeWayTieIsCity ==
    /\ op = "detect_page_type"
    /\ input.marks = {"artist1", "venue1", "city1"}
    /\ out = Some("city")

\* The type with the most signals among `marks`, for the pages of YieldCalls:
\* each has no signal, or one type with more signals than the others
Classified(marks) ==
    IF marks = {} THEN NoType
    ELSE CHOOSE t \in EntityTypes :
            \A u \in EntityTypes \ {t} : SignalScore(u, marks) < SignalScore(t, marks)

\* The type a page is emitted with, or NoType when no row is yielded
EmittedType(rows) == IF rows = <<>> THEN NoType ELSE rows[1].entity_type

\* C14: when no type is detected for a page with a requested type, the
\* detected type becomes city if city is requested, else country if country
\* is requested, else the page is rejected; when a type is detected the
\* fallback is not applied.
C14_FallbackOnlyWhenNoTypeDetected ==
    op = "parse_partition" =>
        /\ Len(out.val) <= 1
        /\ Classified(input.marks) = NoType =>
              EmittedType(out.val) =
                  IF "city" \in input.requested THEN "city"
                  ELSE IF "country" \in input.requested THEN "country"
                  ELSE NoType
        /\ Classified(input.marks) # NoType =>
              EmittedType(out.val) =
                  IF Classified(input.marks) \in input.requested
                  THEN Classified(input.marks) ELSE NoType

\* C14, witness: a page without signals, requested as a country and as a
\* venue, has been emitted as a country
C14_FellBackToCountry ==
    /\ op = "parse_partition"
    /\ input.marks = {}
    /\ input.requested = {"country", "venue"}
    /\ Len(out.val) = 1
    /\ out.val[1].entity_type = "country"

(***************************************************************************)
(* Properties of the scans, checked under SpecScan.                        *)
(***************************************************************************)
\* An iteration of a scan leaves the index greater than it found it
IndexAdvances == op # "none" => out'.i > out.i

\* C19: every depth-counted scan terminates on every input, balanced or not:
\* each iteration strictly advances the index, the index is never more than
\* a constant beyond the length of the text, and the scan comes to its end.
C19_ScansAdvanceAndTerminate ==
    /\ [](op # "none" => out.i <= Len(arg) + 2)
    /\ [][IndexAdvances]_vars
    /\ <>(op # "none" /\ out.loop = "done")

\* C19, witness: remove_templates has come to the end of a text of two
\* templates that open and never close
C19_UnclosedTemplatesScanned ==
    /\ op = "remove_templates"
    /\ input = <<"{", "{", "{", "{">>
    /\ out.loop = "done"
    /\ out.i = Len(input) + 2

(***************************************************************************)
(* Properties of the UniqueDeque, checked under SpecDeque.                 *)
(***************************************************************************)
\* The deque d holds no item twice, and its set is the set of its items
DequeIsUnique(d) ==
    /\ \A i, j \in 1..Len(d.dq) : d.dq[i] = d.dq[j] => i = j
    /\ d.set = {d.dq[i] : i \in 1..Len(d.dq)}

\* C22: after any sequence of append, appendleft, extend, extendleft, popleft
\* and clear, a UniqueDeque holds no item twice and its membership set is
\* exactly the set of the items in the deque.
C22_DequeHoldsEachItemOnce == DequeIsUnique(frontier)

\* C22, witness: appendleft was given an item that the deque held at its
\* right end, and the deque still holds it there and nowhere else
C22_AppendLeftOfHeldItem ==
    /\ pc = "appendleft"
    /\ url = 1
    /\ frontier.dq = <<2, 1>>


(***************************************************************************)
(* Properties of the crawl.                                                *)
(***************************************************************************)
\* The positions of crawl_from_root from its loop on
InCrawl == pc \in {"loop", "get", "record", "enqueue", "final", "done"}

\* C23: once the links of a fetched page have been enqueued, every URL of
\* the frontier that contains "/setlist/" or "/setlists/" is ahead of every
\* URL of the frontier that contains neither.
C23_RelevantLinksAhead ==
    InCrawl =>
        \A i, j \in 1..Len(frontier.dq) :
            LooksRelevant(frontier.dq[i]) /\ ~LooksRelevant(frontier.dq[j]) => i < j

\* A setlist link was put ahead of the robots file, which the frontier held
\* before the page with the setlist link was fetched.
C23_SetlistPutAheadOfHeldLink ==
    /\ pc = "loop"
    /\ url = ListsUrl
    /\ links = <<SetlistUrl, OtherHostUrl>>
    /\ frontier.dq = <<SetlistUrl, RobotsUrl(RootUrl)>>


\* The run began with no saved state: it was told not to resume, or there
\* was no state file to resume from
FreshRun == ~resume \/ runs = 1

\* C24: in a crawl that started from fresh state the number of pages
\* fetched never exceeds max_pages, the number of saved setlists never
\* exceeds max_setlists, and a page is requested only while both numbers
\* are below their limits.
C24_LimitsKept ==
    InCrawl /\ FreshRun =>
        /\ pages_fetched <= max_pages
        /\ Cardinality(found_setlists) <= max_setlists
        /\ pc = "get" =>
              /\ pages_fetched < max_pages
              /\ Cardinality(found_setlists) < max_setlists

\* A fresh run stopped at its first setlist while the frontier still held
\* URLs to fetch.
C24_StoppedAtSetlistLimit ==
    /\ pc = "done"
    /\ FreshRun
    /\ max_setlists = 1
    /\ max_pages = DefaultMaxPages
    /\ found_setlists = {SetlistUrl}
    /\ frontier.dq # <<>>


\* The URLs of the frontier that have been visited
VisitedInFrontier == {frontier.dq[k] : k \in 1..Len(frontier.dq)} \cap visited

\* C30 as stated: within one run no URL is requested twice, and at the start
\* of every iteration of the loop no visited URL is in the frontier.
C30_NoUrlRequestedTwice ==
    InCrawl =>
        /\ \A i, j \in 1..Len(gets) : gets[i] = gets[j] => i = j
        /\ pc = "loop" => VisitedInFrontier = {}

\* C30: within one run the loop requests no URL twice (the robots file,
\* requested once before the loop, is gets[1]), and at the start of every
\* iteration of the loop the only visited URL the frontier can hold is the
\* root URL that a resumed run put into its empty frontier.
C30_NoPageRequestedTwice ==
    InCrawl =>
        /\ \A i, j \in 2..Len(gets) : gets[i] = gets[j] => i = j
        /\ pc = "loop" =>
              \/ VisitedInFrontier = {}
              \/ /\ resume /\ runs > 1
                 /\ frontier.dq = <<normalize_url(root_url)>>

\* A resumed run fetched a page that links to the root, which the run
\* before had visited, and did not enqueue the root again.
C30_VisitedRootNotEnqueued ==
    /\ pc = "loop"
    /\ resume /\ runs = 2
    /\ Len(gets) = 2
    /\ url = ListsUrl
    /\ links = <<RootUrl, SetlistUrl>>
    /\ RootUrl \in visited
    /\ frontier.dq = <<SetlistUrl>>

====
